---- MODULE Spec2Model ----
(***************************************************************************)
(* Model of the risk analyzer agent (src/agents/risk_analyzer/agent.py)    *)
(* and of the address validation it uses (src/shared/utils.py).            *)
(*                                                                         *)
(* Numbers.  Gas, slippage, amounts and risk scores are Python floats in   *)
(* the source.  The model keeps them as integers counted in hundredths     *)
(* (0.30 is 30, 0.05 is 5, 100 SUI is 10000).  For the penalties of        *)
(* calculate_risk_score, added in the order of the code, the IEEE double   *)
(* sums compare with 0.3, 0.6, 0.8 and 1.0 exactly as the hundredths do,   *)
(* and print with two decimals as the hundredths do.                       *)
(*                                                                         *)
(* Strings the code inspects (tokens, addresses, engine results) are       *)
(* sequences of one-character strings; Optional[x] is the empty set for    *)
(* None and {x} for a value.                                               *)
(***************************************************************************)
EXTENDS Integers, Sequences, FiniteSets, TLC

\* ------------------------------------------------------------------------
\* Bounds and program constants
\* ------------------------------------------------------------------------

\* Bound: largest estimated_gas a request carries, in hundredths of SUI.
MaxGas == 100

\* Bound: largest slippage_tolerance a request carries, in hundredths.
MaxSlippage == 10

\* Bound: largest amount a request carries, in hundredths of a token.
MaxAmount == 20000

\* calculate_risk_score: penalties, in hundredths
GasPenalty == 30

SlippagePenalty == 25

AmountPenalty == 25

TokenPenalty == 30

RecipientPenalty == 50

\* calculate_risk_score: cap of the score (1.0)
ScoreCap == 100

\* handle_risk_check: approval threshold (0.6)
SafeThreshold == 60

\* get_risk_level_from_score: thresholds 0.3, 0.6, 0.8
MediumFrom == 30

HighFrom == 60

CriticalFrom == 80

\* is_safe_gas fallback: gas limit 0.5 SUI
GasLimit == 50

\* is_safe_slippage fallback: 5% maximum
SlippageLimit == 5

\* is_safe_amount fallback: lower limit 0.01, limits 100, 10000, 1000
AmountFloor == 1

SuiLimit == 10000

StableLimit == 1000000

DefaultLimit == 100000

\* validate_sui_address: number of hex characters after the prefix.
AddrHexLen == 64

\* ------------------------------------------------------------------------
\* Python values
\* ------------------------------------------------------------------------

None == {}

Some(v) == {v}

IsNone(o) == o = {}

Val(o) == CHOOSE v \in o : TRUE

\* Truthiness of an Optional[float]: None and 0.0 are falsy.
TruthyNum(o) == o # {} /\ Val(o) # 0

\* Truthiness of an Optional[str]: None and "" are falsy.
TruthyStr(o) == o # {} /\ Val(o) # <<>>

LowerLetters ==
    <<"a","b","c","d","e","f","g","h","i","j","k","l","m",
      "n","o","p","q","r","s","t","u","v","w","x","y","z">>

UpperLetters ==
    <<"A","B","C","D","E","F","G","H","I","J","K","L","M",
      "N","O","P","Q","R","S","T","U","V","W","X","Y","Z">>

ToUpper ==
    [c \in {LowerLetters[k] : k \in 1..26} |->
        UpperLetters[CHOOSE k \in 1..26 : LowerLetters[k] = c]]

ToLower ==
    [c \in {UpperLetters[k] : k \in 1..26} |->
        LowerLetters[CHOOSE k \in 1..26 : UpperLetters[k] = c]]

\* str.upper() on one character
UpperChar(c) == IF c \in DOMAIN ToUpper THEN ToUpper[c] ELSE c

\* str.lower() on one character
LowerChar(c) == IF c \in DOMAIN ToLower THEN ToLower[c] ELSE c

upper(s) == [i \in 1..Len(s) |-> UpperChar(s[i])]

lower(s) == [i \in 1..Len(s) |-> LowerChar(s[i])]

\* Python's  sub in s  on strings
Contains(sub, s) ==
    \E i \in 0..(Len(s) - Len(sub)) : SubSeq(s, i + 1, i + Len(sub)) = sub

\* s.startswith(p)
StartsWith(s, p) == Len(s) >= Len(p) /\ SubSeq(s, 1, Len(p)) = p

Rep(c, n) == [i \in 1..n |-> c]

\* ------------------------------------------------------------------------
\* src/shared/utils.py: validate_sui_address
\* ------------------------------------------------------------------------

HexDigits ==
    {"0","1","2","3","4","5","6","7","8","9",
     "a","b","c","d","e","f","A","B","C","D","E","F"}

\* MatchesHex64 accepting lower-case hex digits only.
MatchesHex64Lower(h) ==
    Len(h) = AddrHexLen
    /\ \A i \in 1..Len(h) : h[i] \in HexDigits \ {"A","B","C","D","E","F"}

\* re.match(r'^[0-9a-fA-F]{64}$', hex_part), on a hex_part of 64 characters
MatchesHex64(h) == Len(h) = AddrHexLen /\ \A i \in 1..Len(h) : h[i] \in HexDigits

\* Returns <<is_valid, error>>; error is None or the parts of the message.
validate_sui_address(address) ==
    IF address = <<>> THEN <<FALSE, Some(<<"Address is empty">>)>>
    ELSE IF ~StartsWith(address, <<"0", "x">>)
    THEN <<FALSE, Some(<<"Address must start with 0x">>)>>
    ELSE LET hex_part == SubSeq(address, 3, Len(address)) IN
         IF Len(hex_part) # AddrHexLen
         THEN <<FALSE, Some(<<"Address must be 64 hex characters (got ",
                              Len(hex_part), ")">>)>>
         ELSE IF ~MatchesHex64(hex_part)
         THEN <<FALSE, Some(<<"Address contains invalid characters">>)>>
         ELSE <<TRUE, None>>

\* ------------------------------------------------------------------------
\* The MeTTa engine as the analyzer sees it
\* ------------------------------------------------------------------------

\* An outcome of metta.run(query_string): it raises, or it returns a list
\* whose str() is text.  "[]" is the empty (falsy) list.
Raises == [raises |-> TRUE, text |-> <<>>]

Returns(t) == [raises |-> FALSE, text |-> t]

EmptyList == <<"[", "]">>

TrueText == <<"[", "[", "T", "r", "u", "e", "]", "]">>

FalseText == <<"[", "[", "F", "a", "l", "s", "e", "]", "]">>

\* What the engine may do with a safety predicate's query: raise, or answer
\* True or False.  Which of the two the loaded rules answer for an input is
\* left open.  "none" stands for a query the handler does not issue.
PredicateBehaviours == {"raises", "true", "false"}

PredicateOutcome(behaviour) ==
    IF behaviour = "raises" THEN Raises
    ELSE IF behaviour = "true" THEN Returns(TrueText)
    ELSE Returns(FalseText)

LevelWords ==
    <<  <<"l","o","w">>, <<"m","e","d","i","u","m">>,
        <<"h","i","g","h">>, <<"c","r","i","t","i","c","a","l">> >>

LevelNames == <<"low", "medium", "high", "critical">>

\* MeTTaRiskAnalyzer.query: None unless the engine is up and returns a
\* truthy result; a raise of metta.run is caught and gives None.
query(an, out) ==
    IF ~an.initialized \/ IsNone(an.metta) THEN None
    ELSE IF out.raises THEN None
    ELSE IF out.text # EmptyList THEN Some(out.text) ELSE None

\* "True" in str(result) if result else False
TruthyAnswer(result) ==
    IF result # None THEN Contains(<<"T","r","u","e">>, Val(result)) ELSE FALSE

\* ------------------------------------------------------------------------
\* Heuristic fallback (the branches under  if not self.initialized)
\* ------------------------------------------------------------------------

FallbackSafeGas(gas_amount) == 0 < gas_amount /\ gas_amount < GasLimit

\* FallbackSafeSlippage with the upper limit excluded.
FallbackSafeSlippageStrict(slippage) == 0 <= slippage /\ slippage < SlippageLimit

\* 0.0 <= slippage <= 0.05
FallbackSafeSlippage(slippage) == 0 <= slippage /\ slippage <= SlippageLimit

\* limits.get(token.upper(), 1000)
AmountLimit(token) ==
    LET t == upper(token) IN
    IF t = <<"S","U","I">> THEN SuiLimit
    ELSE IF t = <<"U","S","D","C">> \/ t = <<"U","S","D","T">> THEN StableLimit
    ELSE DefaultLimit

FallbackSafeAmount(token, amount) ==
    AmountFloor < amount /\ amount < AmountLimit(token)

FallbackTrustedToken(token) ==
    upper(token) \in {<<"S","U","I">>, <<"U","S","D","C">>, <<"U","S","D","T">>}

FallbackRiskLevel(score) ==
    IF score < MediumFrom THEN "low"
    ELSE IF score < HighFrom THEN "medium"
    ELSE IF score < CriticalFrom THEN "high"
    ELSE "critical"

\* ------------------------------------------------------------------------
\* MeTTaRiskAnalyzer predicates
\* ------------------------------------------------------------------------

is_safe_gas(an, gas_amount, out) ==
    IF ~an.initialized THEN FallbackSafeGas(gas_amount)
    ELSE TruthyAnswer(query(an, out))

is_safe_slippage(an, slippage, out) ==
    IF ~an.initialized THEN FallbackSafeSlippage(slippage)
    ELSE TruthyAnswer(query(an, out))

is_safe_amount(an, token, amount, out) ==
    IF ~an.initialized THEN FallbackSafeAmount(token, amount)
    ELSE TruthyAnswer(query(an, out))

is_trusted_token(an, token, out) ==
    IF ~an.initialized THEN FallbackTrustedToken(token)
    ELSE TruthyAnswer(query(an, out))

\* The level named first in low, medium, high, critical that occurs in text.
FirstLevelIn(text) ==
    LevelNames[CHOOSE k \in 1..4 :
                  /\ Contains(LevelWords[k], text)
                  /\ \A j \in 1..(k - 1) : ~Contains(LevelWords[j], text)]

\* LevelFromResult with a default outside the RiskLevel enum.
LevelFromResultUnknown(result) ==
    IF result # None /\ \E k \in 1..4 : Contains(LevelWords[k], Val(result))
    THEN FirstLevelIn(lower(Val(result)))
    ELSE "unknown"

\* The level named first that occurs in the lower-cased result, provided one
\* occurs in the result as it is; "medium" otherwise.
LevelFromResult(result) ==
    IF result # None /\ \E k \in 1..4 : Contains(LevelWords[k], Val(result))
    THEN FirstLevelIn(lower(Val(result)))
    ELSE "medium"

get_risk_level_from_score(an, score, out) ==
    IF ~an.initialized THEN FallbackRiskLevel(score)
    ELSE LevelFromResult(query(an, out))

\* ------------------------------------------------------------------------
\* MeTTaRiskAnalyzer.__init__
\* ------------------------------------------------------------------------

\* What the environment does to the constructor:
\*   no_runtime    hyperon is not installed (METTA_AVAILABLE is False)
\*   ctor_raises   MeTTa() raises
\*   file_missing  os.path.exists(kb_file) is False
\*   read_raises   open() or f.read() raises
\*   run_raises    self.metta.run(kb_content) raises
\*   loaded        the rules load
LoadEvents ==
    {"no_runtime", "ctor_raises", "file_missing", "read_raises",
     "run_raises", "loaded"}

\* The constructor with  self.initialized = True  moved above the load of
\* the rules.
MeTTaRiskAnalyzerEager(ev) ==
    IF ev \in {"no_runtime", "ctor_raises"}
    THEN [metta |-> None, initialized |-> FALSE, raised |-> FALSE]
    ELSE IF ev = "file_missing"
    THEN [metta |-> Some("MeTTa"), initialized |-> FALSE, raised |-> FALSE]
    ELSE [metta |-> Some("MeTTa"), initialized |-> TRUE, raised |-> FALSE]

\* The analyzer after the constructor; raised tells whether an exception
\* left the constructor.
MeTTaRiskAnalyzer(ev) ==
    LET METTA_AVAILABLE == ev # "no_runtime" IN
    IF ~METTA_AVAILABLE
    THEN [metta |-> None, initialized |-> FALSE, raised |-> FALSE]
    ELSE IF ev = "ctor_raises"
    THEN [metta |-> None, initialized |-> FALSE, raised |-> FALSE]
    ELSE IF ev = "file_missing"
    THEN [metta |-> Some("MeTTa"), initialized |-> FALSE, raised |-> FALSE]
    ELSE IF ev \in {"read_raises", "run_raises"}
    THEN [metta |-> Some("MeTTa"), initialized |-> FALSE, raised |-> FALSE]
    ELSE [metta |-> Some("MeTTa"), initialized |-> TRUE, raised |-> FALSE]

\* ------------------------------------------------------------------------
\* calculate_risk_score
\* ------------------------------------------------------------------------

\* The queries of one evaluation, in the order the code issues them.
QueryKinds == {"gas", "slippage", "amount", "source", "destination", "level"}

\* token_to_check = request.from_token or request.to_token
token_to_check(request) ==
    IF TruthyStr(request.from_token) THEN request.from_token
    ELSE request.to_token

GasChecked(request) == TruthyNum(request.estimated_gas)

SlippageChecked(request) == TruthyNum(request.slippage_tolerance)

AmountChecked(request) == TruthyStr(token_to_check(request))

SourceChecked(request) == TruthyStr(request.from_token)

DestinationChecked(request) == TruthyStr(request.to_token)

RecipientChecked(request) == TruthyStr(request.recipient_address)

GasFires(request, an, env) ==
    GasChecked(request)
    /\ ~is_safe_gas(an, Val(request.estimated_gas), PredicateOutcome(env["gas"]))

SlippageFires(request, an, env) ==
    SlippageChecked(request)
    /\ ~is_safe_slippage(an, Val(request.slippage_tolerance), PredicateOutcome(env["slippage"]))

AmountFires(request, an, env) ==
    AmountChecked(request)
    /\ ~is_safe_amount(an, Val(token_to_check(request)), request.amount,
                       PredicateOutcome(env["amount"]))

SourceFires(request, an, env) ==
    SourceChecked(request)
    /\ ~is_trusted_token(an, Val(request.from_token), PredicateOutcome(env["source"]))

DestinationFires(request, an, env) ==
    DestinationChecked(request)
    /\ ~is_trusted_token(an, Val(request.to_token), PredicateOutcome(env["destination"]))

RecipientFires(request) ==
    RecipientChecked(request)
    /\ ~validate_sui_address(Val(request.recipient_address))[1]

\* Penalise with the penalty assigned (risk_score = p) instead of added.
PenaliseAssigned(acc, name, fires, p, w, r) ==
    IF fires
    THEN [risk_score |-> p,
          warnings |-> Append(acc.warnings, w),
          recommendations |-> Append(acc.recommendations, r),
          fired |-> acc.fired \cup {name}]
    ELSE acc

\* One  if ...: risk_score += p; warnings.append(w); recommendations.append(r)
\* (fired collects the names of the checks that did so, for the properties)
Penalise(acc, name, fires, p, w, r) ==
    IF fires
    THEN [risk_score |-> acc.risk_score + p,
          warnings |-> Append(acc.warnings, w),
          recommendations |-> Append(acc.recommendations, r),
          fired |-> acc.fired \cup {name}]
    ELSE acc

\* Cap with the cap left out.
CapMissing(score) == score

\* min(risk_score, 1.0)
Cap(score) == IF score < ScoreCap THEN score ELSE ScoreCap

\* Check 1: gas validation.  A warning is the tuple of the parts of its
\* f-string.
GasCheck(request, an, env, acc) ==
    Penalise(acc, "gas", GasFires(request, an, env), GasPenalty,
             <<"Gas amount ", request.estimated_gas, " SUI exceeds safe limit">>,
             "Reduce transaction complexity or check gas estimation")

\* Check 2: slippage tolerance; slippage*100 with one decimal is kept in
\* tenths of a percent.
SlippageCheck(request, an, env, acc) ==
    Penalise(acc, "slippage", SlippageFires(request, an, env), SlippagePenalty,
             <<"Slippage tolerance ",
               {v * 10 : v \in request.slippage_tolerance}, "% is high">>,
             "Reduce slippage or wait for better market conditions")

\* Check 3: transaction amount
AmountCheck(request, an, env, acc) ==
    Penalise(acc, "amount", AmountFires(request, an, env), AmountPenalty,
             <<"Transaction amount ", request.amount, " ",
               token_to_check(request), " is outside safe range">>,
             "Consider splitting into smaller transactions")

\* Check 4: token trust, source token
SourceCheck(request, an, env, acc) ==
    Penalise(acc, "source", SourceFires(request, an, env), TokenPenalty,
             <<"Token ", request.from_token, " is not in trusted list">>,
             "Verify token contract address before proceeding")

\* Check 4: token trust, destination token
DestinationCheck(request, an, env, acc) ==
    Penalise(acc, "destination", DestinationFires(request, an, env),
             TokenPenalty,
             <<"Token ", request.to_token, " is not in trusted list">>,
             "Verify token contract address before proceeding")

\* Check 5: recipient address
RecipientCheck(request, acc) ==
    Penalise(acc, "recipient", RecipientFires(request), RecipientPenalty,
             <<"Invalid recipient address: ",
               validate_sui_address(Val(request.recipient_address))[2]>>,
             "Double-check the recipient address")

\* Finish without the general recommendation.
FinishWithoutDefault(acc) ==
    [risk_score |-> Cap(acc.risk_score),
     warnings |-> acc.warnings,
     recommendations |-> acc.recommendations,
     fired |-> acc.fired]

\* The cap and the general recommendation
Finish(acc) ==
    [risk_score |-> Cap(acc.risk_score),
     warnings |-> acc.warnings,
     recommendations |->
         IF acc.recommendations = <<>>
         THEN <<"Transaction parameters look safe">>
         ELSE acc.recommendations,
     fired |-> acc.fired]

\* Returns [risk_score, warnings, recommendations] (and fired).
calculate_risk_score(request, an, env) ==
    Finish(
      RecipientCheck(request,
        DestinationCheck(request, an, env,
          SourceCheck(request, an, env,
            AmountCheck(request, an, env,
              SlippageCheck(request, an, env,
                GasCheck(request, an, env,
                  [risk_score |-> 0, warnings |-> <<>>,
                   recommendations |-> <<>>, fired |-> {}])))))))

\* The answer of the rule file (knowledge_base/defi_safety_rules.metta) to
\* calculate-risk-level: the band of the thresholds both backends are
\* documented to share.
RulesRiskLevel(score) ==
    <<"[", "[">> \o LevelWords[CHOOSE k \in 1..4 :
                        LevelNames[k] = FallbackRiskLevel(score)] \o <<"]", "]">>

\* What the engine may do with the level query: raise, return nothing, or
\* return what the rules give for the score in the query.
LevelBehaviours == {"raises", "empty", "rules"}

LevelOutcome(behaviour, score) ==
    IF behaviour = "raises" THEN Raises
    ELSE IF behaviour = "empty" THEN Returns(EmptyList)
    ELSE Returns(RulesRiskLevel(score))

\* RiskLevel(risk_level_str) raises ValueError outside the enum's values.
RiskLevelValues == {"low", "medium", "high", "critical"}

\* f"{risk_score:.2f}": the units digit and the two decimals
Fmt2(score) == <<score \div 100, ".", (score % 100) \div 10, score % 10>>

\* BackendSentence deciding on the engine object instead of initialized.
BackendSentenceByEngine(an) ==
    IF an.metta # None
    THEN "Evaluated against DeFi safety rules knowledge base. "
    ELSE "Using fallback heuristics (MeTTa unavailable). "

BackendSentence(an) ==
    IF an.initialized
    THEN "Evaluated against DeFi safety rules knowledge base. "
    ELSE "Using fallback heuristics (MeTTa unavailable). "

VerdictSentence(is_safe) ==
    IF is_safe THEN "Transaction approved."
    ELSE "Transaction flagged - manual review recommended."

\* IsSafe with the threshold included.
IsSafeInclusive(risk_score) == risk_score <= SafeThreshold

\* is_safe = risk_score < 0.6
IsSafe(risk_score) == risk_score < SafeThreshold

\* Confidence losing 0.3 for each unit of score.
ConfidenceSteep(risk_score) == 1000 - (risk_score * 3)

\* confidence_score = 1.0 - (risk_score * 0.2), in thousandths
Confidence(risk_score) == 1000 - (risk_score * 2)

\* ctx.send(sender, RiskCheckResponse(...)); confidence_score is kept in
\* thousandths.
RiskCheckResponse(an, risk_score, risk_level_str, is_safe, calc) ==
    [risk_level |-> risk_level_str,
     is_safe |-> is_safe,
     warnings |-> calc.warnings,
     recommendations |-> calc.recommendations,
     confidence_score |-> Confidence(risk_score),
     reasoning |->
         <<"MeTTa-based risk analysis: Score ", Fmt2(risk_score), "/1.0. ",
           BackendSentence(an),
           "Classification: ", risk_level_str, " risk. ",
           VerdictSentence(is_safe)>>]

\* The handler after calculate_risk_score: raised tells whether an exception
\* left it, sent is what it gave to ctx.send for the sender, and risk_score
\* is the local it logs at the end.
Assess(an, calc, risk_level_str) ==
    IF risk_level_str \notin RiskLevelValues
    THEN [raised |-> TRUE, sent |-> <<>>,
          risk_score |-> calc.risk_score, fired |-> calc.fired]
    ELSE [raised |-> FALSE,
          sent |-> << RiskCheckResponse(an, calc.risk_score, risk_level_str,
                                        IsSafe(calc.risk_score), calc) >>,
          risk_score |-> calc.risk_score, fired |-> calc.fired]

Classify(an, env, calc) ==
    Assess(an, calc,
           get_risk_level_from_score(an, calc.risk_score,
               LevelOutcome(env["level"], calc.risk_score)))

\* The handler from its first line to its last.
handle_risk_check(msg, an, env) ==
    Classify(an, env, calculate_risk_score(msg, an, env))

\* ------------------------------------------------------------------------
\* Requests and engine behaviour the model draws from
\* ------------------------------------------------------------------------

SUI == <<"S", "U", "I">>

usdc == <<"u", "s", "d", "c">>

SCAMCOIN == <<"S", "C", "A", "M", "C", "O", "I", "N">>

ValidAddress == <<"0", "x">> \o Rep("a", AddrHexLen)

ShortAddress == <<"0", "x">> \o Rep("a", AddrHexLen - 1)

GasValues == {None, Some(0), Some(5), Some(MaxGas)}

SlippageValues == {None, Some(1), Some(MaxSlippage)}

FromTokens == {None, Some(SUI), Some(SCAMCOIN)}

ToTokens == {None, Some(usdc), Some(SCAMCOIN)}

Amounts == {0 - 500, 0, 1000, MaxAmount}

Recipients == {None, Some(<<>>), Some(ValidAddress), Some(ShortAddress)}

TransactionTypes == {"swap", "transfer"}

\* The requests senders issue: a transfer names a recipient, a swap does not
\* (the handler reads transaction_type for its log line only).
Requests ==
    {r \in [transaction_type : TransactionTypes,
            from_token : FromTokens,
            to_token : ToTokens,
            amount : Amounts,
            recipient_address : Recipients,
            slippage_tolerance : SlippageValues,
            estimated_gas : GasValues] :
        (r.transaction_type = "transfer") <=> (r.recipient_address # None)}

\* Which queries reach the engine in one evaluation of a request.
Asked(request, an) ==
    IF ~an.initialized THEN {}
    ELSE {"level"}
         \cup (IF GasChecked(request) THEN {"gas"} ELSE {})
         \cup (IF SlippageChecked(request) THEN {"slippage"} ELSE {})
         \cup (IF AmountChecked(request) THEN {"amount"} ELSE {})
         \cup (IF SourceChecked(request) THEN {"source"} ELSE {})
         \cup (IF DestinationChecked(request) THEN {"destination"} ELSE {})

\* The engine's behaviours over one evaluation: an outcome for each query
\* issued.
EngineRuns(request, an) ==
    LET asked == Asked(request, an)
        Out(k) == IF k \in asked THEN PredicateBehaviours ELSE {"none"}
    IN  {[gas |-> g, slippage |-> s, amount |-> a, source |-> f,
          destination |-> t, level |-> l] :
            g \in Out("gas"), s \in Out("slippage"), a \in Out("amount"),
            f \in Out("source"), t \in Out("destination"),
            l \in IF "level" \in asked THEN LevelBehaviours ELSE {"none"}}

\* ------------------------------------------------------------------------
\* The agent as a state machine
\* ------------------------------------------------------------------------

VARIABLES
    pc,              \* "import" before the module is loaded, then "running"
    metta_analyzer,  \* the singleton: [metta, initialized]
    load,            \* what happened while the singleton was constructed
    inbox,           \* the RiskCheckRequest waiting for the handler, or None
    outbox,          \* the messages sent to the sender and not yet taken
    last,            \* record of the last evaluation, for the properties
    pair,            \* two evaluations of calculate_risk_score side by side
    probe,           \* one application of a predicate or of the validation
    facts,           \* KnowledgeGraph.facts: the set of stored triples
    rules,           \* KnowledgeGraph.rules
    kg_last,         \* the last call on the knowledge graph and its result
    knowledge_base,  \* the module global _knowledge_base: None or the instance
    kb_builds,       \* how often create_sui_defi_knowledge_base has run
    layout,          \* the order in which a small store's set iterates now
    coordinator,     \* the coordinator's handle_swap_request in progress
    executor         \* the transaction executor's last handled request

\* The variables of the knowledge graph
kg_vars == <<facts, rules, kg_last, knowledge_base, kb_builds, layout>>

\* The module global of the knowledge graph and the count of its builds
kb_vars == <<knowledge_base, kb_builds>>

\* The variables of the coordinator and of the transaction executor
agent_vars == <<coordinator, executor>>

vars ==
    <<pc, metta_analyzer, load, inbox, outbox, last, pair, probe, kg_vars,
      agent_vars>>

NoSwap == [pc |-> "idle"]

NoRequest == [handled |-> "none"]

NoProbe == [kind |-> "none"]

NoCall == [op |-> "none"]

NoRun == [handled |-> FALSE]

Init ==
    /\ pc = "import"
    /\ metta_analyzer = [metta |-> None, initialized |-> FALSE]
    /\ load = [event |-> "none", raised |-> FALSE]
    /\ inbox = None
    /\ outbox = <<>>
    /\ last = NoRun
    /\ pair = [evaluated |-> FALSE]
    /\ probe = NoProbe
    /\ facts = {}
    /\ rules = <<>>
    /\ kg_last = NoCall
    /\ knowledge_base = None
    /\ kb_builds = 0
    /\ layout = <<>>
    /\ coordinator = NoSwap
    /\ executor = NoRequest

\* Loading the module under the event ev: metta_analyzer = MeTTaRiskAnalyzer()
ImportUnder(ev) ==
    /\ pc = "import"
    /\ \E an \in {MeTTaRiskAnalyzer(ev)} :
          /\ metta_analyzer' = [metta |-> an.metta, initialized |-> an.initialized]
          /\ load' = [event |-> ev, raised |-> an.raised]
          /\ pc' = IF an.raised THEN "crashed" ELSE "running"
    /\ UNCHANGED <<inbox, outbox, last, pair, probe, kg_vars, agent_vars>>

Import == \E ev \in LoadEvents : ImportUnder(ev)

\* Loading the module where the rules cannot be loaded.
ImportWithoutRules == \E ev \in LoadEvents \ {"loaded"} : ImportUnder(ev)

\* A sender's RiskCheckRequest arrives.
SendRequest ==
    /\ pc = "running"
    /\ inbox = None
    /\ outbox = <<>>
    /\ last = NoRun
    /\ \E request \in Requests : inbox' = Some(request)
    /\ UNCHANGED <<pc, metta_analyzer, load, outbox, last, pair, probe, kg_vars, agent_vars>>

\* The agent runs handle_risk_check on the waiting request.
HandleRiskCheck ==
    /\ pc = "running"
    /\ inbox # None
    /\ \E msg \in inbox :
       \E env \in EngineRuns(msg, metta_analyzer) :
       \E h \in {handle_risk_check(msg, metta_analyzer, env)} :
          /\ outbox' = outbox \o h.sent
          /\ last' = [handled |-> TRUE,
                      request |-> msg,
                      env |-> env,
                      fired |-> h.fired,
                      score |-> h.risk_score,
                      raised |-> h.raised]
    /\ inbox' = None
    /\ UNCHANGED <<pc, metta_analyzer, load, pair, probe, kg_vars, agent_vars>>

\* The sender takes the response; the record of the evaluation ends here.
ReceiveResponse ==
    /\ pc = "running"
    /\ outbox # <<>>
    /\ outbox' = Tail(outbox)
    /\ last' = NoRun
    /\ UNCHANGED <<pc, metta_analyzer, load, inbox, pair, probe, kg_vars, agent_vars>>

Next == Import \/ SendRequest \/ HandleRiskCheck \/ ReceiveResponse

Spec == Init /\ [][Next]_vars

\* The agent on a host where the rules never load (no runtime, no rule file,
\* or a failing load): every evaluation runs on the fallback.
NextFallback ==
    ImportWithoutRules \/ SendRequest \/ HandleRiskCheck \/ ReceiveResponse

SpecFallback == Init /\ [][NextFallback]_vars

\* ------------------------------------------------------------------------
\* calculate_risk_score applied twice, for comparing two evaluations
\* ------------------------------------------------------------------------

\* Requests with every optional field present, so that every check is made.
FullRequests ==
    [transaction_type : {"transfer"},
     from_token : {Some(SUI), Some(SCAMCOIN)},
     to_token : {Some(usdc), Some(SCAMCOIN)},
     amount : {1000, MaxAmount},
     recipient_address : {Some(ValidAddress), Some(ShortAddress)},
     slippage_tolerance : {Some(1), Some(MaxSlippage)},
     estimated_gas : {Some(5), Some(MaxGas)}]

\* The request of the second evaluation on an initialized analyzer.
RulesRequest ==
    [transaction_type |-> "transfer", from_token |-> Some(SUI),
     to_token |-> Some(usdc), amount |-> 1000,
     recipient_address |-> Some(ValidAddress),
     slippage_tolerance |-> Some(1), estimated_gas |-> Some(5)]

\* What one evaluation gives: the checks fired, the score, and the
\* confidence_score of the response sent.
Scored(h) ==
    [fired |-> h.fired, score |-> h.risk_score,
     confidence |-> h.sent[1].confidence_score]

Evaluation(request, an, env) == Scored(handle_risk_check(request, an, env))

\* Two evaluations on the fallback: any two full requests.
EvaluatePairFallback ==
    /\ ~pair.evaluated
    /\ \E ra \in FullRequests, rb \in FullRequests :
       \E an \in {[metta |-> None, initialized |-> FALSE]} :
       \E env \in EngineRuns(ra, an) :
          pair' = [evaluated |-> TRUE, initialized |-> FALSE,
                   a |-> Evaluation(ra, an, env), b |-> Evaluation(rb, an, env)]
    /\ UNCHANGED <<pc, metta_analyzer, load, inbox, outbox, last, probe, kg_vars, agent_vars>>

\* The engine answering every predicate query, True or False.  (A raise
\* fires a check exactly as the answer False does.)
AnswerRuns ==
    [gas : {"true", "false"}, slippage : {"true", "false"},
     amount : {"true", "false"}, source : {"true", "false"},
     destination : {"true", "false"}, level : {"rules"}]

\* Two evaluations on an initialized analyzer: any two sets of answers of
\* the engine, with a valid or an invalid recipient.
EvaluatePairRules ==
    /\ ~pair.evaluated
    /\ \E an \in {[metta |-> Some("MeTTa"), initialized |-> TRUE]} :
       \E ra \in {[RulesRequest EXCEPT !.recipient_address = r] :
                     r \in {Some(ValidAddress), Some(ShortAddress)}} :
       \E rb \in {[RulesRequest EXCEPT !.recipient_address = r] :
                     r \in {Some(ValidAddress), Some(ShortAddress)}} :
       \E ea \in AnswerRuns, eb \in AnswerRuns :
          pair' = [evaluated |-> TRUE, initialized |-> TRUE,
                   a |-> Evaluation(ra, an, ea), b |-> Evaluation(rb, an, eb)]
    /\ UNCHANGED <<pc, metta_analyzer, load, inbox, outbox, last, probe, kg_vars, agent_vars>>

NextScore == EvaluatePairFallback \/ EvaluatePairRules

SpecScore == Init /\ [][NextScore]_vars

\* ------------------------------------------------------------------------
\* The fallback's predicates and validate_sui_address applied to one input
\* ------------------------------------------------------------------------

USDC == <<"U", "S", "D", "C">>

USDT == <<"U", "S", "D", "T">>

\* Gas amounts a predicate is asked about, in hundredths of SUI.
GasProbes == (0 - 1)..MaxGas

\* Slippage tolerances a predicate is asked about, in hundredths.
SlippageProbes == (0 - 1)..MaxSlippage

TokenProbes == {SUI, USDC, USDT, usdc, SCAMCOIN}

\* Amounts around the lower limit and around each token's upper limit.
AmountProbes ==
    {0 - MaxAmount, 0, AmountFloor, AmountFloor + 1, MaxAmount}
    \cup {l + d : l \in {SuiLimit, DefaultLimit, StableLimit}, d \in {0 - 1, 0, 1}}

\* The swap RiskCheckRequest(estimated_gas=0.05, slippage_tolerance=0.01,
\* amount=10, from_token="SUI", to_token="USDC").
SafeSwap ==
    [transaction_type |-> "swap", from_token |-> Some(SUI),
     to_token |-> Some(USDC), amount |-> 1000, recipient_address |-> None,
     slippage_tolerance |-> Some(1), estimated_gas |-> Some(5)]

\* The same with estimated_gas=1.0, slippage_tolerance=0.10 and
\* to_token="SCAMCOIN".
RiskySwap ==
    [SafeSwap EXCEPT !.estimated_gas = Some(100),
                     !.slippage_tolerance = Some(10),
                     !.to_token = Some(SCAMCOIN)]

\* Requests differing from SafeSwap in one or two fields.
SwapProbes ==
    {[SafeSwap EXCEPT !.estimated_gas = g, !.to_token = t, !.amount = a] :
        g \in {Some(5), Some(100)}, t \in {Some(USDC), Some(SCAMCOIN)},
        a \in {1000, SuiLimit}}
    \cup {SafeSwap, RiskySwap}

LongAddress == <<"0", "x">> \o Rep("a", AddrHexLen + 1)

\* 0x, then 64 hex digits of both cases
MixedCaseAddress ==
    <<"0", "x">> \o Rep("A", 16) \o Rep("f", 16) \o Rep("F", 16) \o Rep("9", 16)

\* 0x, then 64 characters the first of which is not a hex digit
NonHexAddress == <<"0", "x", "g">> \o Rep("a", AddrHexLen - 1)

\* 0x, then 63 hex digits and a newline
NewlineAddress == <<"0", "x">> \o Rep("a", AddrHexLen - 1) \o <<"\n">>

AddressProbes ==
    {<<>>, ValidAddress, ShortAddress, LongAddress, MixedCaseAddress,
     NonHexAddress, NewlineAddress,
     <<"0", "x">>,
     <<"0">>,
     <<"0", "x", "g", "g">>,
     <<"0", "X">> \o Rep("a", AddrHexLen),
     <<"x", "0">> \o Rep("a", AddrHexLen),
     Rep("a", AddrHexLen),
     Rep("a", AddrHexLen + 2),
     <<" ", "0", "x">> \o Rep("a", AddrHexLen),
     <<"g">>}

\* The analyzers the constructor leaves when the rules do not load.
FallbackAnalyzers ==
    {[metta |-> an.metta, initialized |-> an.initialized] :
        an \in {MeTTaRiskAnalyzer(ev) : ev \in LoadEvents \ {"loaded"}}}

\* metta_analyzer.is_safe_gas(gas) on the fallback
ProbeGas ==
    /\ probe = NoProbe
    /\ \E an \in FallbackAnalyzers, gas \in GasProbes :
          probe' = [kind |-> "gas", gas |-> gas,
                    safe |-> is_safe_gas(an, gas, Raises)]
    /\ UNCHANGED <<pc, metta_analyzer, load, inbox, outbox, last, pair, kg_vars, agent_vars>>

\* metta_analyzer.is_safe_slippage(slippage) on the fallback
ProbeSlippage ==
    /\ probe = NoProbe
    /\ \E an \in FallbackAnalyzers, slippage \in SlippageProbes :
          probe' = [kind |-> "slippage", slippage |-> slippage,
                    safe |-> is_safe_slippage(an, slippage, Raises)]
    /\ UNCHANGED <<pc, metta_analyzer, load, inbox, outbox, last, pair, kg_vars, agent_vars>>

\* metta_analyzer.is_safe_amount(token, amount) on the fallback
ProbeAmount ==
    /\ probe = NoProbe
    /\ \E an \in FallbackAnalyzers, token \in TokenProbes, amount \in AmountProbes :
          probe' = [kind |-> "amount", token |-> token, amount |-> amount,
                    safe |-> is_safe_amount(an, token, amount, Raises)]
    /\ UNCHANGED <<pc, metta_analyzer, load, inbox, outbox, last, pair, kg_vars, agent_vars>>

\* metta_analyzer.is_trusted_token(token) on the fallback
ProbeToken ==
    /\ probe = NoProbe
    /\ \E an \in FallbackAnalyzers, token \in TokenProbes :
          probe' = [kind |-> "token", token |-> token,
                    trusted |-> is_trusted_token(an, token, Raises)]
    /\ UNCHANGED <<pc, metta_analyzer, load, inbox, outbox, last, pair, kg_vars, agent_vars>>

\* handle_risk_check on a swap request, on the fallback
ProbeRequest ==
    /\ probe = NoProbe
    /\ \E an \in FallbackAnalyzers, request \in SwapProbes :
       \E env \in EngineRuns(request, an) :
       \E h \in {handle_risk_check(request, an, env)} :
          probe' = [kind |-> "request", request |-> request,
                    fired |-> h.fired, score |-> h.risk_score,
                    raised |-> h.raised, sent |-> h.sent]
    /\ UNCHANGED <<pc, metta_analyzer, load, inbox, outbox, last, pair, kg_vars, agent_vars>>

\* validate_sui_address(address)
ProbeAddress ==
    /\ probe = NoProbe
    /\ \E address \in AddressProbes :
          probe' = [kind |-> "address", address |-> address,
                    result |-> validate_sui_address(address)]
    /\ UNCHANGED <<pc, metta_analyzer, load, inbox, outbox, last, pair, kg_vars, agent_vars>>

NextProbe ==
    \/ ProbeGas \/ ProbeSlippage \/ ProbeAmount \/ ProbeToken
    \/ ProbeRequest \/ ProbeAddress

SpecProbe == Init /\ [][NextProbe]_vars

\* ------------------------------------------------------------------------
\* src/knowledge/metta_kg.py: KnowledgeGraph
\* ------------------------------------------------------------------------

\* Bound: largest number of triples the store holds.
MaxFacts == 3

\* Bound: largest number of triples in one batch or one JSON document.
MaxBatch == 2

\* The strings callers pass as subject, predicate and object; "" is the
\* empty string.
KGSubjects == {"", "Cetus", "Turbos"}

KGPredicates == {"", "risk_level"}

KGObjects == {"low", "medium"}

\* The (subject, predicate, obj) tuples add_fact can be given.
Triples == KGSubjects \X KGPredicates \X KGObjects

\* The values of the arguments of query and get_relationships: those of the
\* triples and one that no triple has.
QuerySubjects == KGSubjects \cup {"Aftermath"}

QueryPredicates == KGPredicates \cup {"is_type"}

QueryObjects == KGObjects

\* Optional[str] arguments: None or a value of vs.
Optional(vs) == {None} \cup {Some(v) : v \in vs}

RECURSIVE SeqsUpTo(_, _)
\* The lists of at most n elements of S
SeqsUpTo(S, n) ==
    IF n = 0 THEN {<<>>}
    ELSE LET shorter == SeqsUpTo(S, n - 1)
         IN  shorter \cup {Append(q, x) : q \in shorter, x \in S}

\* The lists of tuples add_facts_batch can be given.
Batches == SeqsUpTo(Triples, MaxBatch)

\* Iterations in which an element may come twice.
IterationsRepeating(F) ==
    {it \in [1..(Cardinality(F) + 1) -> F] : \A x \in F : \E i \in DOMAIN it : it[i] = x}

\* for fact in self.facts: the orders in which a set can be iterated, each
\* element once.
Iterations(F) ==
    {it \in [1..Cardinality(F) -> F] : \A x \in F : \E i \in DOMAIN it : it[i] = x}

\* add_fact replacing the store by the triple.
add_fact_replacing(F, subject, predicate, obj) == {<<subject, predicate, obj>>}

\* self.facts.add((subject, predicate, obj)); F is self.facts before the
\* call, the value is self.facts after it.
add_fact(F, subject, predicate, obj) == F \cup {<<subject, predicate, obj>>}

RECURSIVE add_facts_batch(_, _)
\* for fact in facts: self.add_fact(*fact)
add_facts_batch(F, batch) ==
    IF batch = <<>> THEN F
    ELSE add_facts_batch(add_fact(F, Head(batch)[1], Head(batch)[2], Head(batch)[3]),
                         Tail(batch))

\* query leaving obj out of the comparison.
query_ignoring_obj(it, subject, predicate, obj) ==
    LET Matches(fact) ==
            /\ (subject = None \/ Val(subject) = fact[1])
            /\ (predicate = None \/ Val(predicate) = fact[2])
    IN  SelectSeq(it, Matches)

\* KnowledgeGraph.query: it is the order in which self.facts is iterated;
\* the facts that match are appended to results in that order.
KnowledgeGraph_query(it, subject, predicate, obj) ==
    LET Matches(fact) ==
            /\ (subject = None \/ Val(subject) = fact[1])
            /\ (predicate = None \/ Val(predicate) = fact[2])
            /\ (obj = None \/ Val(obj) = fact[3])
    IN  SelectSeq(it, Matches)

\* The empty dict
EmptyDict == <<>>

RECURSIVE RelateOverwriting(_, _)
\* Relate with relationships[p] = [o] in place of append.
RelateOverwriting(found, relationships) ==
    IF found = <<>> THEN relationships
    ELSE LET p == Head(found)[2]
             o == Head(found)[3]
         IN  RelateOverwriting(Tail(found),
                 (p :> <<o>>) @@ relationships)

RECURSIVE Relate(_, _)
\* for s, p, o in facts:
\*     if p not in relationships: relationships[p] = []
\*     relationships[p].append(o)
Relate(found, relationships) ==
    IF found = <<>> THEN relationships
    ELSE LET p == Head(found)[2]
             o == Head(found)[3]
             known == IF p \notin DOMAIN relationships
                      THEN relationships @@ (p :> <<>>)
                      ELSE relationships
         IN  Relate(Tail(found), [known EXCEPT ![p] = Append(@, o)])

\* KnowledgeGraph.get_relationships
get_relationships(it, subject) ==
    Relate(KnowledgeGraph_query(it, Some(subject), None, None), EmptyDict)

\* A JSON array
JArray(elements) == [array |-> elements]

\* The elements of rules: one annotation
Rule == [name |-> "prefer_low_risk"]

\* to_json exporting "facts" only.
to_json_without_rules(it, rs) ==
    [facts |-> Some(JArray([i \in 1..Len(it) |-> JArray(it[i])])),
     rules |-> None]

\* KnowledgeGraph.to_json: the document {"facts": [list(fact) ...],
\* "rules": self.rules}; a key of the document is None when absent.
to_json(it, rs) ==
    [facts |-> Some(JArray([i \in 1..Len(it) |-> JArray(it[i])])),
     rules |-> Some(JArray(rs))]

\* KnowledgeGraph.from_json: the store after loading the document;
\* data.get(key, []) gives the empty list for an absent key.
from_json(data) ==
    LET listed == IF data.facts = None THEN <<>> ELSE Val(data.facts).array
        rs == IF data.rules = None THEN <<>> ELSE Val(data.rules).array
    IN  [facts |-> {listed[i].array : i \in 1..Len(listed)},
         rules |-> rs]

\* The documents from_json is given: "facts" absent or a list of triples as
\* lists, "rules" absent or a list.
Documents ==
    [facts : {None} \cup {Some(JArray([i \in 1..Len(b) |-> JArray(b[i])])) :
                             b \in Batches},
     rules : {None, Some(JArray(<<>>)), Some(JArray(<<Rule>>))}]

\* The variables other than those of the knowledge graph
risk_vars ==
    <<pc, metta_analyzer, load, inbox, outbox, last, pair, probe, agent_vars>>

\* kg.add_fact(subject, predicate, obj)
AddFact ==
    /\ kg_last = NoCall
    /\ \E t \in Triples :
          /\ Cardinality(facts) < MaxFacts \/ t \in facts
          /\ facts' = add_fact(facts, t[1], t[2], t[3])
          /\ kg_last' = [op |-> "add_fact", fact |-> t, before |-> facts]
    /\ UNCHANGED <<rules, kb_vars, layout, risk_vars>>

\* kg.add_facts_batch(batch)
AddFactsBatch ==
    /\ kg_last = NoCall
    /\ \E batch \in Batches :
       \E after \in {add_facts_batch(facts, batch)} :
          /\ Cardinality(after) <= MaxFacts
          /\ facts' = after
          /\ kg_last' = [op |-> "add_facts_batch", batch |-> batch]
    /\ UNCHANGED <<rules, kb_vars, layout, risk_vars>>

\* kg.query(subject, predicate, obj)
Query ==
    /\ kg_last = NoCall
    /\ \E it \in Iterations(facts) :
       \E subject \in Optional(QuerySubjects),
          predicate \in Optional(QueryPredicates),
          obj \in Optional(QueryObjects) :
          kg_last' = [op |-> "query", subject |-> subject,
                      predicate |-> predicate, obj |-> obj,
                      result |-> KnowledgeGraph_query(it, subject, predicate, obj)]
    /\ UNCHANGED <<facts, rules, kb_vars, layout, risk_vars>>

\* kg.get_relationships(subject)
GetRelationships ==
    /\ kg_last = NoCall
    /\ \E it \in Iterations(facts), subject \in QuerySubjects :
          kg_last' = [op |-> "get_relationships", subject |-> subject,
                      result |-> get_relationships(it, subject)]
    /\ UNCHANGED <<facts, rules, kb_vars, layout, risk_vars>>

\* kg.to_json()
ToJson ==
    /\ kg_last = NoCall
    /\ \E it \in Iterations(facts) :
          kg_last' = [op |-> "to_json", result |-> to_json(it, rules)]
    /\ UNCHANGED <<facts, rules, kb_vars, layout, risk_vars>>

\* kg.from_json(json_str)
FromJson ==
    /\ kg_last = NoCall
    /\ \E data \in Documents :
       \E loaded \in {from_json(data)} :
          /\ Cardinality(loaded.facts) <= MaxFacts
          /\ facts' = loaded.facts
          /\ rules' = loaded.rules
          /\ kg_last' = [op |-> "from_json", data |-> data]
    /\ UNCHANGED <<kb_vars, layout, risk_vars>>

\* The caller takes the result of the call.
KGReturn ==
    /\ kg_last # NoCall
    /\ kg_last' = NoCall
    /\ UNCHANGED <<facts, rules, kb_vars, layout, risk_vars>>

NextKG ==
    \/ AddFact \/ AddFactsBatch \/ Query \/ GetRelationships
    \/ ToJson \/ FromJson \/ KGReturn

SpecKG == Init /\ [][NextKG]_vars

\* ------------------------------------------------------------------------
\* src/knowledge/metta_kg.py: the seeded knowledge base and its inference
\* ------------------------------------------------------------------------
\* Strings of the knowledge base are sequences of pieces, so that an
\* f-string is the concatenation of its parts: "SUI/USDC" is
\* <<"SUI", "/", "USDC">> and "Cetus" is <<"Cetus">>.

\* Bound: largest number of facts inserted on top of the seed.
MaxInserted == 2

\* Bound: largest number of times the model lets the seed be built.
MaxBuilds == 3

\* A string of one piece
Str(s) == <<s>>

\* pair = f"{coin_in}/{coin_out}"
PairKey(coin_in, coin_out) == coin_in \o <<"/">> \o coin_out

\* f"liquidity_{pair}"
LiquidityKey(pair_key) == <<"liquidity_">> \o pair_key

\* The tuple (s, p, o) of three one-piece strings
Fact(s, p, o) == <<Str(s), Str(p), Str(o)>>

\* ("dex", "supports_pair", "a/b") and ("dex", "liquidity_a/b", level)
PairFacts(dex, a, b, level) ==
    {<<Str(dex), Str("supports_pair"), PairKey(Str(a), Str(b))>>,
     <<Str(dex), LiquidityKey(PairKey(Str(a), Str(b))), Str(level)>>}

\* The token facts of the seed: is_type, symbol, decimals, coin_type,
\* address, and the flags given.
TokenFacts(symbol, decimals, coin_type, flags) ==
    {Fact(symbol, "is_type", "Token"), Fact(symbol, "symbol", symbol),
     Fact(symbol, "decimals", decimals), Fact(symbol, "coin_type", coin_type),
     Fact(symbol, "address", coin_type)}
    \cup {Fact(symbol, flag, "true") : flag \in flags}

\* An operation's facts of the seed
OperationFacts(operation, gas_estimate) ==
    {Fact(operation, "is_type", "Operation"),
     Fact(operation, "gas_estimate", gas_estimate),
     Fact(operation, "requires_approval", "false")}

\* create_sui_defi_knowledge_base: the facts of the store it returns
SeedFacts ==
    {Fact("Cetus", "is_type", "DEX"), Fact("Cetus", "blockchain", "Sui"),
     Fact("Cetus", "protocol_type", "AMM"), Fact("Cetus", "risk_level", "low"),
     Fact("Cetus", "audited", "true"),
     Fact("Turbos", "is_type", "DEX"), Fact("Turbos", "blockchain", "Sui"),
     Fact("Turbos", "protocol_type", "AMM"),
     Fact("Turbos", "risk_level", "medium"), Fact("Turbos", "audited", "true"),
     Fact("Aftermath", "is_type", "DEX"), Fact("Aftermath", "blockchain", "Sui"),
     Fact("Aftermath", "protocol_type", "Aggregator"),
     Fact("Aftermath", "risk_level", "medium")}
    \cup PairFacts("Cetus", "SUI", "USDC", "high")
    \cup PairFacts("Cetus", "SUI", "USDT", "high")
    \cup PairFacts("Cetus", "USDC", "USDT", "medium")
    \cup PairFacts("Cetus", "SUI", "WAL", "medium")
    \cup PairFacts("Turbos", "SUI", "USDC", "medium")
    \cup PairFacts("Turbos", "SUI", "USDT", "low")
    \cup {Fact("Aftermath", "aggregates", "Cetus"),
          Fact("Aftermath", "aggregates", "Turbos")}
    \cup {Fact("TradePort", "is_type", "NFT_Marketplace"),
          Fact("TradePort", "blockchain", "Sui"),
          Fact("TradePort", "supports_operation", "mint"),
          Fact("TradePort", "supports_operation", "transfer"),
          Fact("TradePort", "supports_operation", "list"),
          Fact("TradePort", "fee_percentage", "2.5"),
          Fact("BlueMove", "is_type", "NFT_Marketplace"),
          Fact("BlueMove", "blockchain", "Sui"),
          Fact("BlueMove", "supports_operation", "mint"),
          Fact("BlueMove", "fee_percentage", "2.0")}
    \cup TokenFacts("SUI", "9", "0x2::sui::SUI", {"is_native"})
    \cup TokenFacts("USDC", "6",
           "0x0588cff9a50e0eaf4cd50d337c1a36570bc1517793fd3303e1513e8ad4d2aa96::usdc::USDC",
           {"is_stablecoin"})
    \cup TokenFacts("USDT", "6",
           "0x50b3637dde9471e36dcb8b7d147a9e8de50a777181e7f1b11598e28d7bebf8c4::usdt::USDT",
           {"is_stablecoin"})
    \cup TokenFacts("CETUS", "9",
           "0xa6f859bee36f3882711be22cf468f0974eb318ec3b8fe9bcc5ed69311360a044::cetus::CETUS",
           {})
    \cup TokenFacts("WAL", "9",
           "0x8270feb7375eee355e64fdb69c50abb6b5f9393a722883c1cf45f8e26048810a::wal::WAL",
           {})
    \cup OperationFacts("swap", "0.001")
    \cup OperationFacts("mint_nft", "0.01")
    \cup OperationFacts("transfer_nft", "0.002")
    \cup OperationFacts("stake", "0.002")
    \cup {Fact("Cetus", "global_config",
               "0x9774e359588ead122af1c7e7f64e14ade261cfeecdb5d0eb4a5b3b4c8ab8bd3e"),
          Fact("Cetus", "network", "testnet")}

\* str.upper() on one piece: the lower-case pieces callers pass, and pieces
\* without lower-case letters, which it leaves as they are.
UpperPiece(w) ==
    CASE w = "sui" -> "SUI"
      [] w = "usdc" -> "USDC"
      [] w = "wal" -> "WAL"
      [] w = "new" -> "NEW"
      [] OTHER -> w

\* str.upper() on a string of pieces
kg_upper(s) == [i \in 1..Len(s) |-> UpperPiece(s[i])]

\* int(decimals_str): None stands for the ValueError int raises on a string
\* that is not an integer literal.
ParseInt(s) ==
    CASE s = Str("9") -> Some(9)
      [] s = Str("6") -> Some(6)
      [] s = Str("18") -> Some(18)
      [] OTHER -> None

\* float(gas_str), in thousandths: None stands for the ValueError.
ParseFloat(s) ==
    CASE s = Str("0.001") -> Some(1)
      [] s = Str("0.01") -> Some(10)
      [] s = Str("0.002") -> Some(2)
      [] OTHER -> None

\* The facts of F a query pattern <<subject, predicate, obj>> matches
MatchedBy(F, q) ==
    {t \in F :
        /\ (q[1] = None \/ Val(q[1]) = t[1])
        /\ (q[2] = None \/ Val(q[2]) = t[2])
        /\ (q[3] = None \/ Val(q[3]) = t[3])}

RECURSIVE Views(_, _)
\* What one call can tell of the order in which self.facts is iterated: for
\* each pattern it queries, the order in which the facts matching the
\* pattern are met.  (The patterns of one call share at most one fact, so
\* every combination of orders is the order of some iteration.)
Views(F, patterns) ==
    IF patterns = {} THEN {<<>>}
    ELSE LET q == CHOOSE x \in patterns : TRUE
         IN  {(q :> it) @@ v :
                 it \in Iterations(MatchedBy(F, q)),
                 v \in Views(F, patterns \ {q})}

\* self.query(subject, predicate, obj) within a call that sees the
\* iteration as view
QueryUnder(view, subject, predicate, obj) ==
    KnowledgeGraph_query(view[<<subject, predicate, obj>>],
                         subject, predicate, obj)

\* KnowledgeGraph.get_property: results[0][2], or None
get_property(view, subject, predicate) ==
    LET results == QueryUnder(view, Some(subject), Some(predicate), None)
    IN  IF results # <<>> THEN Some(results[1][3]) ELSE None

\* [s for s, p, o in self.query(None, "supports_pair", pair)]
supporting_dexes(view, pair_key) ==
    LET results == QueryUnder(view, None, Some(Str("supports_pair")), Some(pair_key))
    IN  [i \in 1..Len(results) |-> results[i][1]]

\* The score infer_best_dex gives one dex
DexScore(view, dex, pair_key) ==
    LET liquidity == get_property(view, dex, LiquidityKey(pair_key))
        risk == get_property(view, dex, Str("risk_level"))
    IN  (IF liquidity = Some(Str("high")) THEN 10
         ELSE IF liquidity = Some(Str("medium")) THEN 5 ELSE 0)
        + (IF risk = Some(Str("low")) THEN 10
           ELSE IF risk = Some(Str("medium")) THEN 5 ELSE 0)

\* max(scores.items(), key=lambda x: x[1])[0]: the first key, in the order
\* the dict got its keys, whose score no other exceeds
MaxItem(keys, scores) ==
    keys[CHOOSE i \in 1..Len(keys) :
            /\ \A j \in 1..Len(keys) : scores[keys[j]] <= scores[keys[i]]
            /\ \A j \in 1..(i - 1) : scores[keys[j]] < scores[keys[i]]]

\* infer_best_dex scoring the risk level only.
infer_best_dex_by_risk(view, coin_in, coin_out) ==
    LET pair_key == PairKey(coin_in, coin_out)
        dexes == supporting_dexes(view, pair_key)
        scores == [dex \in {dexes[i] : i \in 1..Len(dexes)} |->
                      IF get_property(view, dex, Str("risk_level")) = Some(Str("low"))
                      THEN 10 ELSE 0]
    IN  IF dexes = <<>> THEN None ELSE Some(MaxItem(dexes, scores))

\* KnowledgeGraph.infer_best_dex
infer_best_dex(view, coin_in, coin_out) ==
    LET pair_key == PairKey(coin_in, coin_out)
        dexes == supporting_dexes(view, pair_key)
        scores == [dex \in {dexes[i] : i \in 1..Len(dexes)} |->
                      DexScore(view, dex, pair_key)]
    IN  IF dexes = <<>> THEN None ELSE Some(MaxItem(dexes, scores))

\* The patterns infer_best_dex queries on the store F
InferPatterns(F, coin_in, coin_out) ==
    LET pair_key == PairKey(coin_in, coin_out)
        sup == <<None, Some(Str("supports_pair")), Some(pair_key)>>
    IN  {sup}
        \cup {<<Some(t[1]), Some(LiquidityKey(pair_key)), None>> : t \in MatchedBy(F, sup)}
        \cup {<<Some(t[1]), Some(Str("risk_level")), None>> : t \in MatchedBy(F, sup)}

\* KnowledgeGraph.get_gas_estimate, in thousandths
get_gas_estimate(view, operation) ==
    LET gas_str == get_property(view, operation, Str("gas_estimate"))
    IN  IF TruthyStr(gas_str) THEN ParseFloat(Val(gas_str)) ELSE None

\* KnowledgeGraph.explain_reasoning: the lines of the text
explain_reasoning(view, subject) ==
    LET found == QueryUnder(view, Some(subject), None, None)
    IN  IF found = <<>> THEN << <<"No knowledge about ", subject>> >>
        ELSE << <<"Knowledge about ", subject, ":">> >>
             \o [i \in 1..Len(found) |-> <<"  - ", found[i][2], ": ", found[i][3]>>]

\* KnowledgeGraph.find_best_by_property
find_best_by_property(view, entity_type, property_name, preferred_value) ==
    LET typed == QueryUnder(view, None, Some(Str("is_type")), Some(entity_type))
        entities == [i \in 1..Len(typed) |-> typed[i][1]]
        Preferred(entity) ==
            get_property(view, entity, property_name) = Some(preferred_value)
    IN  SelectSeq(entities, Preferred)

\* The patterns find_best_by_property queries on the store F
FindPatterns(F, entity_type, property_name) ==
    LET typed == <<None, Some(Str("is_type")), Some(entity_type)>>
    IN  {typed}
        \cup {<<Some(t[1]), Some(property_name), None>> : t \in MatchedBy(F, typed)}

RECURSIVE Hop(_, _, _)
\* for node in current_nodes:
\*     next_nodes.extend([o for s, p, o in self.query(node, predicate, None)])
Hop(view, nodes, predicate) ==
    IF nodes = <<>> THEN <<>>
    ELSE LET results == QueryUnder(view, Some(Head(nodes)), Some(predicate), None)
         IN  [i \in 1..Len(results) |-> results[i][3]]
             \o Hop(view, Tail(nodes), predicate)

RECURSIVE Traverse(_, _, _)
\* for predicate in predicates: ...; current_nodes = next_nodes
Traverse(view, current_nodes, predicates) ==
    IF predicates = <<>> THEN current_nodes
    ELSE Traverse(view, Hop(view, current_nodes, Head(predicates)),
                  Tail(predicates))

\* KnowledgeGraph.traverse_path
traverse_path(view, start, predicates) == Traverse(view, <<start>>, predicates)

RECURSIVE TraversePatterns(_, _, _)
\* The patterns traverse_path queries on the store F from the nodes given
TraversePatterns(F, nodes, predicates) ==
    IF predicates = <<>> THEN {}
    ELSE LET asked == {<<Some(n), Some(Head(predicates)), None>> : n \in nodes}
             reached == {t[3] : t \in UNION {MatchedBy(F, q) : q \in asked}}
         IN  asked \cup TraversePatterns(F, reached, Tail(predicates))

\* query_knowledge("coin_info", coin_symbol=...): raised tells whether
\* int(decimals_str) raised; value is the dict or None.
coin_info(view, coin_symbol_arg) ==
    LET coin_symbol == kg_upper(coin_symbol_arg)
        coin_address == get_property(view, coin_symbol, Str("coin_type"))
        decimals_str == get_property(view, coin_symbol, Str("decimals"))
    IN  IF TruthyStr(coin_address) /\ TruthyStr(decimals_str)
        THEN IF ParseInt(Val(decimals_str)) = None
             THEN [raised |-> TRUE, value |-> None]
             ELSE [raised |-> FALSE,
                   value |-> Some([symbol |-> coin_symbol,
                                   address |-> Val(coin_address),
                                   coinType |-> Val(coin_address),
                                   decimals |-> Val(ParseInt(Val(decimals_str)))])]
        ELSE [raised |-> FALSE, value |-> None]

\* The patterns coin_info queries
CoinPatterns(coin_symbol_arg) ==
    {<<Some(kg_upper(coin_symbol_arg)), Some(Str("coin_type")), None>>,
     <<Some(kg_upper(coin_symbol_arg)), Some(Str("decimals")), None>>}

\* best_dex or "Cetus"
DexOrDefault(best_dex) ==
    IF TruthyStr(best_dex) THEN Val(best_dex) ELSE Str("Cetus")

\* The bundle of swap_params
SwapBundle(view, coin_in_info, coin_out_info, best_dex) ==
    [tokenFrom |-> coin_in_info,
     tokenTo |-> coin_out_info,
     dex |-> DexOrDefault(best_dex),
     globalConfig |-> get_property(view, Str("Cetus"), Str("global_config")),
     network |-> "testnet"]

\* query_knowledge("swap_params", coin_in=..., coin_out=...)
swap_params(view, coin_in_arg, coin_out_arg) ==
    LET coin_in == kg_upper(coin_in_arg)
        coin_out == kg_upper(coin_out_arg)
        coin_in_info == coin_info(view, coin_in)
        coin_out_info == coin_info(view, coin_out)
    IN  IF coin_in_info.raised \/ coin_out_info.raised
        THEN [raised |-> TRUE, value |-> None]
        ELSE IF coin_in_info.value = None \/ coin_out_info.value = None
        THEN [raised |-> FALSE, value |-> None]
        ELSE [raised |-> FALSE,
              value |-> Some(SwapBundle(view, Val(coin_in_info.value),
                                        Val(coin_out_info.value),
                                        infer_best_dex(view, coin_in, coin_out)))]

\* The patterns swap_params queries on the store F
SwapPatterns(F, coin_in_arg, coin_out_arg) ==
    CoinPatterns(coin_in_arg) \cup CoinPatterns(coin_out_arg)
    \cup InferPatterns(F, kg_upper(coin_in_arg), kg_upper(coin_out_arg))
    \cup {<<Some(Str("Cetus")), Some(Str("global_config")), None>>}

\* get_knowledge_base building the seed on every call.
get_knowledge_base_rebuilding(kb, builds, F, rs) ==
    [knowledge_base |-> Some(builds + 1), kb_builds |-> builds + 1,
     facts |-> SeedFacts, rules |-> <<>>]

\* get_knowledge_base: the module's state after the call.  kb is
\* _knowledge_base, an instance being named by the number of the build that
\* made it; F and rs are the instance's facts and rules.
get_knowledge_base(kb, builds, F, rs) ==
    IF kb = None
    THEN [knowledge_base |-> Some(builds + 1), kb_builds |-> builds + 1,
          facts |-> SeedFacts, rules |-> <<>>]
    ELSE [knowledge_base |-> kb, kb_builds |-> builds,
          facts |-> F, rules |-> rs]

\* The module after the get_knowledge_base() a call starts with
Obtained == get_knowledge_base(knowledge_base, kb_builds, facts, rules)

\* The facts callers insert on top of the seed
InsertedFacts ==
    {<<Str("Turbos"), Str("supports_pair"), PairKey(Str("WAL"), Str("USDC"))>>,
     <<Str("Aftermath"), Str("supports_pair"), PairKey(Str("WAL"), Str("USDC"))>>,
     Fact("Turbos", "risk_level", "low"),
     Fact("NEW", "coin_type", "0xabc::new::NEW"),
     Fact("NEW", "decimals", "nine"),
     Fact("NEW", "decimals", "9")}

\* The coin pairs callers ask about
VenuePairs ==
    {<<Str("SUI"), Str("USDC")>>, <<Str("sui"), Str("usdc")>>,
     <<Str("SUI"), Str("USDT")>>, <<Str("SUI"), Str("NONEXISTENT")>>,
     <<Str("WAL"), Str("USDC")>>, <<Str("NEW"), Str("SUI")>>,
     <<Str("SUI"), Str("NEW")>>}

\* The coin symbols callers ask about
CoinSymbols == {Str("SUI"), Str("usdc"), Str("NEW"), Str("NONEXISTENT")}

\* The module's state after a call that obtained the instance as after and
\* left it alone
Keep(after) ==
    /\ knowledge_base' = after.knowledge_base
    /\ kb_builds' = after.kb_builds
    /\ facts' = after.facts
    /\ rules' = after.rules

\* get_knowledge_base()
GetKnowledgeBase ==
    /\ kg_last = NoCall
    /\ \E after \in {Obtained} :
          /\ after.kb_builds <= MaxBuilds
          /\ Keep(after)
          /\ kg_last' = [op |-> "get_knowledge_base",
                         instance |-> after.knowledge_base]
    /\ UNCHANGED <<layout, risk_vars>>

\* get_knowledge_base().add_fact(...)
InsertFact ==
    /\ kg_last = NoCall
    /\ \E after \in {Obtained}, t \in InsertedFacts :
          /\ after.kb_builds <= MaxBuilds
          /\ Cardinality((after.facts \cup {t}) \ SeedFacts) <= MaxInserted
          /\ knowledge_base' = after.knowledge_base
          /\ kb_builds' = after.kb_builds
          /\ facts' = add_fact(after.facts, t[1], t[2], t[3])
          /\ rules' = after.rules
          /\ kg_last' = [op |-> "insert", fact |-> t,
                         instance |-> after.knowledge_base]
    /\ UNCHANGED <<layout, risk_vars>>

\* query_knowledge("best_dex", coin_in=..., coin_out=...)
BestDex ==
    /\ kg_last = NoCall
    /\ \E after \in {Obtained}, cp \in VenuePairs :
       \E view \in Views(after.facts, InferPatterns(after.facts, cp[1], cp[2])) :
          /\ after.kb_builds <= MaxBuilds
          /\ Keep(after)
          /\ kg_last' = [op |-> "best_dex", coin_in |-> cp[1], coin_out |-> cp[2],
                         view |-> view,
                         instance |-> after.knowledge_base,
                         returned |-> infer_best_dex(view, cp[1], cp[2])]
    /\ UNCHANGED <<layout, risk_vars>>

\* infer_best_dex on two stores that hold the facts of the knowledge base:
\* the instance itself and a second KnowledgeGraph the same facts were
\* added to, each with its own iteration order.
BestDexOfTwoStores ==
    /\ kg_last = NoCall
    /\ \E after \in {Obtained}, cp \in VenuePairs :
       \E first \in Views(after.facts, InferPatterns(after.facts, cp[1], cp[2])),
          second \in Views(after.facts, InferPatterns(after.facts, cp[1], cp[2])) :
          /\ after.kb_builds <= MaxBuilds
          /\ Keep(after)
          /\ kg_last' = [op |-> "two_stores", coin_in |-> cp[1], coin_out |-> cp[2],
                         instance |-> after.knowledge_base,
                         first |-> infer_best_dex(first, cp[1], cp[2]),
                         second |-> infer_best_dex(second, cp[1], cp[2])]
    /\ UNCHANGED <<layout, risk_vars>>

\* query_knowledge("coin_info", coin_symbol=...)
CoinInfo ==
    /\ kg_last = NoCall
    /\ \E after \in {Obtained}, coin_symbol \in CoinSymbols :
       \E view \in Views(after.facts, CoinPatterns(coin_symbol)) :
          /\ after.kb_builds <= MaxBuilds
          /\ Keep(after)
          /\ kg_last' = [op |-> "coin_info", coin_symbol |-> coin_symbol,
                         instance |-> after.knowledge_base,
                         outcome |-> coin_info(view, coin_symbol)]
    /\ UNCHANGED <<layout, risk_vars>>

\* query_knowledge("swap_params", coin_in=..., coin_out=...)
SwapParams ==
    /\ kg_last = NoCall
    /\ \E after \in {Obtained}, cp \in VenuePairs :
       \E view \in Views(after.facts, SwapPatterns(after.facts, cp[1], cp[2])) :
          /\ after.kb_builds <= MaxBuilds
          /\ Keep(after)
          /\ kg_last' = [op |-> "swap_params", coin_in |-> cp[1], coin_out |-> cp[2],
                         view |-> view,
                         instance |-> after.knowledge_base,
                         outcome |-> swap_params(view, cp[1], cp[2])]
    /\ UNCHANGED <<layout, risk_vars>>

\* The caller goes on after a call on the knowledge base
VenueReturn ==
    /\ kg_last # NoCall
    /\ kg_last' = NoCall
    /\ UNCHANGED <<facts, rules, kb_vars, layout, risk_vars>>

NextVenue ==
    \/ GetKnowledgeBase \/ InsertFact \/ BestDex \/ BestDexOfTwoStores
    \/ CoinInfo \/ SwapParams \/ VenueReturn

SpecVenue == Init /\ [][NextVenue]_vars

\* ------------------------------------------------------------------------
\* src/knowledge/metta_kg.py: the read operations on one KnowledgeGraph
\* ------------------------------------------------------------------------
\* The instance is small enough for its whole iteration order to be part of
\* the state: layout is the order in which self.facts iterates now.  An
\* insertion may rehash the set, so it can leave any order behind; iterating
\* the set does not touch it.

\* The facts added to the instance
ReadFacts ==
    {<<Str("Cetus"), Str("supports_pair"), PairKey(Str("SUI"), Str("USDC"))>>,
     <<Str("Turbos"), Str("supports_pair"), PairKey(Str("SUI"), Str("USDC"))>>,
     Fact("Cetus", "risk_level", "low"),
     Fact("Cetus", "is_type", "DEX"),
     Fact("Aftermath", "aggregates", "Cetus"),
     Fact("swap", "gas_estimate", "0.001")}

\* The documents loaded into the instance: at most one fact, "rules" absent
\* or a list.
ReadDocuments ==
    [facts : {Some(JArray(<<>>))} \cup {Some(JArray(<<JArray(t)>>)) : t \in ReadFacts},
     rules : {None, Some(JArray(<<Rule>>))}]

\* What a call sees of the iteration it on each of the patterns
WholeView(it, patterns) == [q \in patterns |-> it]

\* A method that iterates self.facts and assigns nothing to self, emptying
\* the store.
ReadingDestructively(F, rs, order, returned) ==
    [facts |-> {}, rules |-> rs, layout |-> <<>>, returned |-> returned]

\* A method that iterates self.facts and assigns nothing to self: the
\* instance after the call, and what the call returns.
Reading(F, rs, order, returned) ==
    [facts |-> F, rules |-> rs, layout |-> order, returned |-> returned]

\* The step of a read operation op with the arguments args whose body
\* returns returned
ReadStep(op, args, returned) ==
    \E call \in {Reading(facts, rules, layout, returned)} :
       /\ facts' = call.facts
       /\ rules' = call.rules
       /\ layout' = call.layout
       /\ kg_last' = [op |-> op, read |-> TRUE, args |-> args,
                      result |-> call.returned]

\* The instance is between calls, or the last call on it was a read
Readable == IF kg_last = NoCall THEN TRUE ELSE kg_last.read

\* kg.add_fact(subject, predicate, obj)
ReadAddFact ==
    /\ kg_last = NoCall
    /\ \E t \in ReadFacts :
          /\ Cardinality(facts \cup {t}) <= MaxFacts
          /\ facts' = add_fact(facts, t[1], t[2], t[3])
          /\ IF t \in facts THEN layout' = layout
             ELSE layout' \in Iterations(facts')
          /\ kg_last' = [op |-> "add_fact", read |-> FALSE, args |-> t]
    /\ UNCHANGED <<rules, kb_vars, risk_vars>>

\* kg.from_json(json_str)
ReadFromJson ==
    /\ kg_last = NoCall
    /\ \E data \in ReadDocuments :
       \E loaded \in {from_json(data)} :
          /\ facts' = loaded.facts
          /\ rules' = loaded.rules
          /\ layout' \in Iterations(loaded.facts)
          /\ kg_last' = [op |-> "from_json", read |-> FALSE, args |-> data]
    /\ UNCHANGED <<kb_vars, risk_vars>>

\* kg.query(subject, predicate, obj)
ReadQuery ==
    /\ Readable
    /\ \E subject \in {None, Some(Str("Cetus"))},
          predicate \in {None, Some(Str("supports_pair"))} :
          ReadStep("query", <<subject, predicate, None>>,
                   KnowledgeGraph_query(layout, subject, predicate, None))
    /\ UNCHANGED <<kb_vars, risk_vars>>

\* kg.get_property(subject, predicate)
ReadGetProperty ==
    /\ Readable
    /\ \E sp \in {<<Str("Cetus"), Str("risk_level")>>,
                  <<Str("Turbos"), Str("risk_level")>>} :
          ReadStep("get_property", sp,
                   get_property(WholeView(layout,
                                    {<<Some(sp[1]), Some(sp[2]), None>>}),
                                sp[1], sp[2]))
    /\ UNCHANGED <<kb_vars, risk_vars>>

\* kg.find_best_by_property(entity_type, property_name, preferred_value)
ReadFindBestByProperty ==
    /\ Readable
    /\ \E preferred_value \in {Str("low"), Str("medium")} :
          ReadStep("find_best_by_property",
                   <<Str("DEX"), Str("risk_level"), preferred_value>>,
                   find_best_by_property(
                       WholeView(layout,
                           FindPatterns(facts, Str("DEX"), Str("risk_level"))),
                       Str("DEX"), Str("risk_level"), preferred_value))
    /\ UNCHANGED <<kb_vars, risk_vars>>

\* kg.traverse_path(start, predicates)
ReadTraversePath ==
    /\ Readable
    /\ \E predicates \in {<<Str("aggregates")>>,
                          <<Str("aggregates"), Str("risk_level")>>} :
          ReadStep("traverse_path", <<Str("Aftermath"), predicates>>,
                   traverse_path(
                       WholeView(layout,
                           TraversePatterns(facts, {Str("Aftermath")}, predicates)),
                       Str("Aftermath"), predicates))
    /\ UNCHANGED <<kb_vars, risk_vars>>

\* kg.get_relationships(subject)
ReadGetRelationships ==
    /\ Readable
    /\ \E subject \in {Str("Cetus"), Str("Turbos")} :
          ReadStep("get_relationships", <<subject>>,
                   get_relationships(layout, subject))
    /\ UNCHANGED <<kb_vars, risk_vars>>

\* kg.infer_best_dex(coin_in, coin_out)
ReadInferBestDex ==
    /\ Readable
    /\ \E cp \in {<<Str("SUI"), Str("USDC")>>, <<Str("SUI"), Str("NONEXISTENT")>>} :
          ReadStep("infer_best_dex", cp,
                   infer_best_dex(
                       WholeView(layout, InferPatterns(facts, cp[1], cp[2])),
                       cp[1], cp[2]))
    /\ UNCHANGED <<kb_vars, risk_vars>>

\* kg.get_gas_estimate(operation)
ReadGetGasEstimate ==
    /\ Readable
    /\ \E operation \in {Str("swap"), Str("stake")} :
          ReadStep("get_gas_estimate", <<operation>>,
                   get_gas_estimate(
                       WholeView(layout,
                           {<<Some(operation), Some(Str("gas_estimate")), None>>}),
                       operation))
    /\ UNCHANGED <<kb_vars, risk_vars>>

\* kg.explain_reasoning(subject)
ReadExplainReasoning ==
    /\ Readable
    /\ \E subject \in {Str("Cetus"), Str("NONEXISTENT")} :
          ReadStep("explain_reasoning", <<subject>>,
                   explain_reasoning(
                       WholeView(layout, {<<Some(subject), None, None>>}),
                       subject))
    /\ UNCHANGED <<kb_vars, risk_vars>>

\* kg.to_json()
ReadToJson ==
    /\ Readable
    /\ ReadStep("to_json", <<>>, to_json(layout, rules))
    /\ UNCHANGED <<kb_vars, risk_vars>>

\* The caller goes on to change the instance
ReadReturn ==
    /\ kg_last # NoCall
    /\ kg_last' = NoCall
    /\ UNCHANGED <<facts, rules, kb_vars, layout, risk_vars>>

NextRead ==
    \/ ReadAddFact \/ ReadFromJson \/ ReadQuery \/ ReadGetProperty
    \/ ReadFindBestByProperty \/ ReadTraversePath \/ ReadGetRelationships
    \/ ReadInferBestDex \/ ReadGetGasEstimate \/ ReadExplainReasoning
    \/ ReadToJson \/ ReadReturn

SpecRead == Init /\ [][NextRead]_vars

\* ------------------------------------------------------------------------
\* src/agents/sui_assistant_coordinator/agent.py: handle_swap_request
\* ------------------------------------------------------------------------
\* The handler runs from one await to the next; coordinator holds where it
\* is, what it has got so far and, in trace, the messages it has sent and
\* the answers it has received, in order.

\* AGENT_ADDRESSES: an address is "" when its environment variable is unset
AddressBook == [MARKET : {"", "agent1qmarket"}, RISK : {"", "agent1qrisk"},
                EXECUTOR : {"", "agent1qexecutor"}]

\* The intents the language model hands over: a key is None when missing
Intents ==
    [from_token : {None, Some("SUI"), Some("USDC")},
     to_token : {None, Some("USDC")},
     amount : {None, Some(0), Some(10)}]

\* What send_and_receive can come back with: a message, nothing within the
\* timeout, or an exception
Timeout == [kind |-> "timeout"]
Raised == [kind |-> "exception"]
OtherMessage == [kind |-> "message", type |-> "ChatAcknowledgement"]

PriceAnswers ==
    {[kind |-> "message", type |-> "PriceResponse", price |-> p] : p \in {0, 2}}
    \cup {OtherMessage, Timeout, Raised}

RiskAnswers ==
    {[kind |-> "message", type |-> "RiskCheckResponse", is_safe |-> s] :
        s \in BOOLEAN}
    \cup {OtherMessage, Timeout, Raised}

ExecutorAnswers ==
    {[kind |-> "message", type |-> "TransactionResponse", status |-> s] :
        s \in {"success", "failure", "error"}}
    \cup {OtherMessage, Timeout, Raised}

\* if isinstance(response, T): return response; return None -- and None
\* from the except branch
Accepted(answer, type) ==
    IF answer.kind = "message" THEN
        IF answer.type = type THEN Some(answer) ELSE None
    ELSE None

\* ctx.send(sender, create_text_chat(text))
Chat(text) == [kind |-> "send", peer |-> "user", type |-> "ChatMessage", text |-> text]

\* ctx.send_and_receive(AGENT_ADDRESSES[peer], message): the sending
Sent(peer, message) == [kind |-> "send", peer |-> peer, type |-> message.type,
                        message |-> message]

\* ctx.send_and_receive(AGENT_ADDRESSES[peer], message): the outcome
Received(peer, answer) == [kind |-> "receive", peer |-> peer, answer |-> answer]

\* all([from_token, to_token, amount])
AllGiven(intent) ==
    /\ intent.from_token # None /\ Val(intent.from_token) # ""
    /\ intent.to_token # None /\ Val(intent.to_token) # ""
    /\ TruthyNum(intent.amount)

\* amount * price_info.price if from_token == "SUI" else
\* amount / price_info.price, in whole units; None for ZeroDivisionError
EstimatedOutput(intent, price) ==
    IF Val(intent.from_token) = "SUI" THEN Some(Val(intent.amount) * price)
    ELSE IF price = 0 THEN None
    ELSE Some(Val(intent.amount) \div price)

\* The gate passing whatever answer came.
RiskyIgnoringVerdict(risk_check) == risk_check = None

\* if not risk_check or not risk_check.is_safe
Risky(risk_check) == risk_check = None \/ ~Val(risk_check).is_safe

\* The handler returns: handle_chat_message has the reply to send
Returned(run, reply) == [run EXCEPT !.pc = "done", !.reply = reply]

\* RiskCheckRequest(transaction_type=SWAP, ...)
SwapRiskCheck(intent) ==
    [type |-> "RiskCheckRequest", transaction_type |-> "swap",
     from_token |-> intent.from_token, to_token |-> intent.to_token,
     amount |-> intent.amount]

\* SwapRequest(from_token=..., to_token=..., amount=..., wallet_address="0x...")
SwapOrder(intent) ==
    [type |-> "SwapRequest", from_token |-> Val(intent.from_token),
     to_token |-> Val(intent.to_token), amount |-> Val(intent.amount),
     wallet_address |-> "0x..."]

\* handle_swap_request up to the first await of an answer
BeginSwap(intent, addresses) ==
    LET run == [pc |-> "start", intent |-> intent, addresses |-> addresses,
                price_info |-> None, risk |-> "not_consulted",
                risk_check |-> None, trace |-> <<>>, reply |-> "none"]
        noted == [run EXCEPT !.trace = <<Chat("checking_price")>>]
    IN  IF ~AllGiven(intent) THEN Returned(run, "need_more_information")
        ELSE IF addresses.MARKET = "" THEN Returned(noted, "no_price")
        ELSE [noted EXCEPT
                 !.pc = "await_price",
                 !.trace = Append(@, Sent("MARKET",
                              [type |-> "PriceRequest",
                               token_symbol |-> Val(intent.to_token)]))]

\* handle_swap_request from the safety check on: the executor is asked
Execute(run) ==
    LET told == [run EXCEPT !.trace = @ \o <<Chat("safety_check_passed"),
                                             Chat("executing_swap")>>]
    IN  IF run.addresses.EXECUTOR = "" THEN Returned(told, "swap_failed")
        ELSE [told EXCEPT
                 !.pc = "await_executor",
                 !.trace = Append(@, Sent("EXECUTOR", SwapOrder(run.intent)))]

\* if not risk_check or not risk_check.is_safe: return the cancellation;
\* otherwise go on to the execution
Gate(run, risk_check) ==
    IF Risky(risk_check) THEN Returned(run, "cancelled") ELSE Execute(run)

\* handle_swap_request from the market agent's answer to the next await
AfterPrice(run, answer) ==
    LET price_info == Accepted(answer, "PriceResponse")
        got == [run EXCEPT !.trace = Append(@, Received("MARKET", answer)),
                           !.price_info = price_info]
    IN  IF price_info = None THEN Returned(got, "no_price")
        ELSE IF EstimatedOutput(run.intent, Val(price_info).price) = None
        THEN Returned(got, "error")
        ELSE LET told == [got EXCEPT !.trace = @ \o <<Chat("price"),
                                                      Chat("analyzing_safety")>>]
             IN  IF run.addresses.RISK = ""
                 THEN Gate([told EXCEPT !.risk = "unconfigured"], None)
                 ELSE [told EXCEPT
                          !.pc = "await_risk",
                          !.trace = Append(@, Sent("RISK", SwapRiskCheck(run.intent)))]

\* What the consultation of the risk agent came to
Consultation(answer) ==
    IF answer.kind = "timeout" THEN "no_answer"
    ELSE IF answer.kind = "exception" THEN "exception"
    ELSE IF answer.type # "RiskCheckResponse" THEN "other_type"
    ELSE IF answer.is_safe THEN "safe" ELSE "unsafe"

\* handle_swap_request from the risk agent's answer to the next await
AfterRisk(run, answer) ==
    LET risk_check == Accepted(answer, "RiskCheckResponse")
        got == [run EXCEPT !.trace = Append(@, Received("RISK", answer)),
                           !.risk = Consultation(answer),
                           !.risk_check = risk_check]
    IN  Gate(got, risk_check)

\* handle_swap_request from the executor's answer to its return
AfterExecutor(run, answer) ==
    LET tx_result == Accepted(answer, "TransactionResponse")
        got == [run EXCEPT !.trace = Append(@, Received("EXECUTOR", answer))]
    IN  IF tx_result = None THEN Returned(got, "swap_failed")
        ELSE IF Val(tx_result).status # "success" THEN Returned(got, "swap_failed")
        ELSE Returned(got, "swap_completed")

\* The variables other than the coordinator's
beside_coordinator ==
    <<pc, metta_analyzer, load, inbox, outbox, last, pair, probe, kg_vars,
      executor>>

\* handle_chat_message routes a swap intent to handle_swap_request
SwapRequested ==
    /\ coordinator = NoSwap
    /\ \E intent \in Intents, addresses \in AddressBook :
          coordinator' = BeginSwap(intent, addresses)
    /\ UNCHANGED beside_coordinator

\* consult_market_agent's send_and_receive comes back
PriceAnswered ==
    /\ coordinator.pc = "await_price"
    /\ \E answer \in PriceAnswers : coordinator' = AfterPrice(coordinator, answer)
    /\ UNCHANGED beside_coordinator

\* consult_risk_agent's send_and_receive comes back
RiskAnswered ==
    /\ coordinator.pc = "await_risk"
    /\ \E answer \in RiskAnswers : coordinator' = AfterRisk(coordinator, answer)
    /\ UNCHANGED beside_coordinator

\* execute_transaction's send_and_receive comes back
ExecutorAnswered ==
    /\ coordinator.pc = "await_executor"
    /\ \E answer \in ExecutorAnswers :
          coordinator' = AfterExecutor(coordinator, answer)
    /\ UNCHANGED beside_coordinator

\* handle_chat_message sends the reply; the next message can be handled
Replied ==
    /\ coordinator.pc = "done"
    /\ coordinator' = NoSwap
    /\ UNCHANGED beside_coordinator

NextCoordinator ==
    \/ SwapRequested \/ PriceAnswered \/ RiskAnswered \/ ExecutorAnswered
    \/ Replied

SpecCoordinator == Init /\ [][NextCoordinator]_vars

\* ------------------------------------------------------------------------
\* src/agents/transaction_executor/agent.py: the three handlers
\* ------------------------------------------------------------------------
\* executor records one handled request: the message, the
\* TransactionResponses sent to its sender, the requests posted to the
\* backend, and whether the handler ended by raising.

\* BACKEND_ENDPOINTS of shared/config.py, with BACKEND_API_URL at its default
BACKEND_ENDPOINTS ==
    [key \in {"SWAP", "TRANSFER", "STAKE", "GET_BALANCE"} |->
        CASE key = "SWAP" -> "http://localhost:3000/api/swap"
          [] key = "TRANSFER" -> "http://localhost:3000/api/transfer"
          [] key = "STAKE" -> "http://localhost:3000/api/stake"
          [] key = "GET_BALANCE" -> "http://localhost:3000/api/balance"]

\* dict[key]: None stands for the KeyError of a missing key
Subscript(dict, key) == IF key \in DOMAIN dict THEN Some(dict[key]) ELSE None

\* validate_positive_number: <<is_valid, error>>
validate_positive_number(value, name) ==
    IF value <= 0
    THEN <<FALSE, Some(<<name, " must be positive (got ", value, ")">>)>>
    ELSE <<TRUE, None>>

\* What http_post returns: (success, response_data, error_message); the
\* response data is a dict, here by its keys transactionHash and gasUsed,
\* each None when missing.
BackendResults ==
    {<<TRUE, Some([transactionHash |-> Some("0xdigest"), gasUsed |-> Some(2)]), None>>,
     <<TRUE, Some([transactionHash |-> None, gasUsed |-> None]), None>>,
     <<FALSE, None, Some("HTTP 500: error")>>,
     <<FALSE, None, Some("")>>}

\* `success and response_data`: an empty dict is falsy
Succeeded(result) ==
    /\ result[1]
    /\ result[2] # None
    /\ Val(result[2]) # [transactionHash |-> None, gasUsed |-> None]

\* TransactionResponse(status=..., ...); the timestamp is left out
TransactionResponse(status, transaction_type, amount, transaction_hash, gas_used, error_message) ==
    [type |-> "TransactionResponse", status |-> status,
     transaction_type |-> transaction_type, amount |-> amount,
     transaction_hash |-> transaction_hash, gas_used |-> gas_used,
     error_message |-> error_message]

\* The handler answered with the response and returned
Responded(response, posted) ==
    [sent |-> <<response>>, posted |-> posted, raised |-> FALSE]

\* The handler ended with an exception outside its try block
Crashed == [sent |-> <<>>, posted |-> <<>>, raised |-> TRUE]

\* error_msg or "Unknown error from backend"
ErrorOrUnknown(error_msg) ==
    IF error_msg # None /\ Val(error_msg) # "" THEN error_msg
    ELSE Some("Unknown error from backend")

\* response_data.get("gasUsed", 0.0)
GasUsed(data) == IF data.gasUsed = None THEN Some(0) ELSE data.gasUsed

\* The part the three handlers share, from the log line that names the
\* endpoint to the end: the lookup BACKEND_ENDPOINTS['PTB'] in the log line
\* stands before the try block.
CallBackend(transaction_type, amount, payload, result) ==
    LET endpoint == Subscript(BACKEND_ENDPOINTS, "PTB")
        posted == <<[url |-> endpoint, data |-> payload]>>
    IN  IF endpoint = None THEN Crashed
        ELSE IF Succeeded(result)
        THEN Responded(TransactionResponse("success", transaction_type, amount,
                          Val(result[2]).transactionHash,
                          GasUsed(Val(result[2])), None), posted)
        ELSE Responded(TransactionResponse("failure", transaction_type, amount,
                          None, None, ErrorOrUnknown(result[3])), posted)

\* The answer to a request that fails validation
Rejected(transaction_type, amount, error) ==
    Responded(TransactionResponse("error", transaction_type, amount,
                                 None, None, error), <<>>)

\* handle_swap
handle_swap(msg, result) ==
    LET checked == validate_positive_number(msg.amount, "swap amount")
    IN  IF ~checked[1] THEN Rejected("swap", msg.amount, checked[2])
        ELSE CallBackend("swap", msg.amount,
                 [userIntent |-> <<"swap ", msg.amount, " ", msg.from_token,
                                   " to ", msg.to_token>>,
                  walletAddress |-> msg.wallet_address],
                 result)

\* handle_transfer
handle_transfer(msg, result) ==
    LET checked == validate_positive_number(msg.amount, "transfer amount")
        address == validate_sui_address(msg.recipient_address)
    IN  IF ~checked[1] THEN Rejected("transfer", msg.amount, checked[2])
        ELSE IF ~address[1]
        THEN Rejected("transfer", msg.amount,
                      Some(<<"Invalid recipient address: ", Val(address[2])>>))
        ELSE CallBackend("transfer", msg.amount,
                 [userIntent |-> <<"transfer ", msg.amount, " ", msg.token,
                                   " to ", msg.recipient_address>>,
                  walletAddress |-> msg.wallet_address],
                 result)

\* handle_stake
handle_stake(msg, result) ==
    LET checked == validate_positive_number(msg.amount, "stake amount")
        validator_text == IF TruthyStr(msg.validator_address)
                          THEN <<" with validator ", Val(msg.validator_address)>>
                          ELSE <<>>
    IN  IF ~checked[1] THEN Rejected("stake", msg.amount, checked[2])
        ELSE CallBackend("stake", msg.amount,
                 [userIntent |-> <<"stake ", msg.amount, " ", msg.token>>
                                 \o validator_text,
                  walletAddress |-> msg.wallet_address],
                 result)

\* The amounts of the requests
ExecutorAmounts == {0 - 5, 0, 1, 10, MaxAmount}

\* The wallet addresses of the requests: the coordinator's placeholder
\* "0x..." and an address
Wallets == {<<"0", "x", ".", ".", ".">>, ValidAddress}

\* The SwapRequests received
SwapRequests ==
    [type : {"SwapRequest"}, from_token : {"SUI", "USDC"},
     to_token : {"USDC", "SUI"}, amount : ExecutorAmounts,
     wallet_address : Wallets]

\* The TransferRequests received
TransferRequests ==
    [type : {"TransferRequest"}, token : {"SUI", "USDC"},
     amount : ExecutorAmounts,
     recipient_address : {<<>>, ValidAddress, ShortAddress, MixedCaseAddress,
                          NonHexAddress},
     wallet_address : Wallets]

\* The StakeRequests received
StakeRequests ==
    [type : {"StakeRequest"}, token : {"SUI"}, amount : ExecutorAmounts,
     validator_address : {None, Some(<<>>), Some(ValidAddress)},
     wallet_address : Wallets]

\* The variables other than the executor's
beside_executor ==
    <<pc, metta_analyzer, load, inbox, outbox, last, pair, probe, kg_vars,
      coordinator>>

\* The record of a handled request
Handled(handler, msg, outcome) ==
    [handled |-> handler, msg |-> msg, sent |-> outcome.sent,
     posted |-> outcome.posted, raised |-> outcome.raised]

\* A SwapRequest arrives and handle_swap runs
HandleSwap ==
    /\ executor = NoRequest
    /\ \E msg \in SwapRequests, result \in BackendResults :
          executor' = Handled("handle_swap", msg, handle_swap(msg, result))
    /\ UNCHANGED beside_executor

\* A TransferRequest arrives and handle_transfer runs
HandleTransfer ==
    /\ executor = NoRequest
    /\ \E msg \in TransferRequests, result \in BackendResults :
          executor' = Handled("handle_transfer", msg, handle_transfer(msg, result))
    /\ UNCHANGED beside_executor

\* A StakeRequest arrives and handle_stake runs
HandleStake ==
    /\ executor = NoRequest
    /\ \E msg \in StakeRequests, result \in BackendResults :
          executor' = Handled("handle_stake", msg, handle_stake(msg, result))
    /\ UNCHANGED beside_executor

\* The agent is ready for the next message
ExecutorReady ==
    /\ executor # NoRequest
    /\ executor' = NoRequest
    /\ UNCHANGED beside_executor

NextExecutor == HandleSwap \/ HandleTransfer \/ HandleStake \/ ExecutorReady

SpecExecutor == Init /\ [][NextExecutor]_vars

\* ------------------------------------------------------------------------
\* Properties
\* ------------------------------------------------------------------------

\* An evaluation has finished and its response has not been taken yet.
Answered == last.handled /\ outbox # <<>>

Response == outbox[1]

AllChecks == {"gas", "slippage", "amount", "source", "destination", "recipient"}

\* The penalties as the specification's table gives them, in hundredths.
TablePenalty ==
    [gas |-> 30, slippage |-> 25, amount |-> 25, source |-> 30,
     destination |-> 30, recipient |-> 50]

RECURSIVE PenaltySum(_)
PenaltySum(checks) ==
    IF checks = {} THEN 0
    ELSE LET c == CHOOSE x \in checks : TRUE
         IN  TablePenalty[c] + PenaltySum(checks \ {c})

\* The band of a score under the fixed thresholds 0.3, 0.6 and 0.8.
Band(score) ==
    CASE score < 30 -> "low"
      [] score >= 30 /\ score < 60 -> "medium"
      [] score >= 60 /\ score < 80 -> "high"
      [] score >= 80 -> "critical"

\* C1: in either backend mode and for every combination of check outcomes,
\* the response's is_safe is true exactly when the final capped score is
\* strictly below 0.6; a score of exactly 0.6 is unsafe.
C1_SafeIffBelowThreshold ==
    Answered => (Response.is_safe <=> last.score < 60)

\* C1 witness: an evaluation scoring exactly 0.6 was answered unsafe.
C1_Witness == Answered /\ last.score = 60 /\ ~Response.is_safe

\* C2: the score is min(1.0, sum of the penalties of the fired checks), so it
\* lies in [0, 1] and is exactly 1.0 once the uncapped sum reaches 1.0.
C2_ScoreIsCappedSum ==
    last.handled =>
        /\ last.score = (IF PenaltySum(last.fired) < 100
                         THEN PenaltySum(last.fired) ELSE 100)
        /\ last.score >= 0 /\ last.score <= 100
        /\ (PenaltySum(last.fired) >= 100 => last.score = 100)

\* C2 witness: all six checks fired (uncapped sum 1.90) and the score is 1.0.
C2_Witness == last.handled /\ last.fired = AllChecks /\ last.score = 100

\* C3: of two evaluations, the one whose fired checks include the other's
\* has a score at least as high, also across the cap.
C3_Monotone ==
    pair.evaluated =>
        /\ (pair.a.fired \subseteq pair.b.fired => pair.a.score <= pair.b.score)
        /\ (pair.b.fired \subseteq pair.a.fired => pair.b.score <= pair.a.score)

\* C3 witness: the fired checks of one evaluation strictly include those of
\* the other, and the larger set is beyond the cap while the smaller is not.
C3_Witness ==
    /\ pair.evaluated
    /\ pair.a.fired \subseteq pair.b.fired /\ pair.a.fired # pair.b.fired
    /\ PenaltySum(pair.b.fired) > 100 /\ pair.a.score < 100
    /\ pair.a.score > 0

\* C4: the level of a response is the band of its score: below 0.3 low, from
\* 0.3 medium, from 0.6 high, from 0.8 critical.
C4_LevelIsBand == Answered => Response.risk_level = Band(last.score)

\* C5: the level in the response is the fixed-threshold band of the score
\* whether the analyzer is initialized or not, so an unsafe response is never
\* low or medium and a safe one never high or critical.
C5_BackendsAgree ==
    Answered =>
        /\ (metta_analyzer.initialized => Response.risk_level = Band(last.score))
        /\ (~metta_analyzer.initialized => Response.risk_level = Band(last.score))
        /\ (~Response.is_safe => Response.risk_level \notin {"low", "medium"})
        /\ (Response.is_safe => Response.risk_level \notin {"high", "critical"})

\* The checks the fallback's predicates fire on a request.
FallbackFired(request) ==
    {c \in AllChecks :
        \/ c = "gas" /\ GasChecked(request)
             /\ ~FallbackSafeGas(Val(request.estimated_gas))
        \/ c = "slippage" /\ SlippageChecked(request)
             /\ ~FallbackSafeSlippage(Val(request.slippage_tolerance))
        \/ c = "amount" /\ AmountChecked(request)
             /\ ~FallbackSafeAmount(Val(token_to_check(request)), request.amount)
        \/ c = "source" /\ SourceChecked(request)
             /\ ~FallbackTrustedToken(Val(request.from_token))
        \/ c = "destination" /\ DestinationChecked(request)
             /\ ~FallbackTrustedToken(Val(request.to_token))
        \/ c = "recipient" /\ RecipientFires(request)}

\* C6: when the rules do not load (no runtime, no rule file, a raise while
\* constructing, reading or loading), the constructor returns normally with
\* initialized false, and every evaluation afterwards is decided by the
\* fallback's predicates and the fallback's levels.
C6_LoadFailureFallsBack ==
    (pc # "import" /\ load.event # "loaded") =>
        /\ pc = "running" /\ ~load.raised
        /\ ~metta_analyzer.initialized
        /\ (last.handled => last.fired = FallbackFired(last.request))
        /\ (Answered => Response.risk_level = FallbackRiskLevel(last.score))

\* C6 witness: the load raised, and an evaluation that the fallback lets
\* pass on gas, tokens and amount was answered with nothing fired.
C6_Witness ==
    /\ load.event = "run_raises"
    /\ Answered
    /\ GasChecked(last.request) /\ AmountChecked(last.request)
    /\ last.fired = {}

\* The predicate queries of the last evaluation that raised.
FailedQueries ==
    {k \in QueryKinds \ {"level"} : last.env[k] = "raises"}

\* The checks fired in the last evaluation among those in ks.
FiredAmong(ks) == {c \in last.fired : c \in ks}

\* C7: when the analyzer is initialized and a query fails, the predicate
\* answers what the fallback answers for the same input, and a failed level
\* query gives the fallback's level.
C7_QueryFailureFallsBack ==
    (Answered /\ metta_analyzer.initialized) =>
        /\ FiredAmong(FailedQueries)
             = {c \in FallbackFired(last.request) : c \in FailedQueries}
        /\ (last.env.level \in {"raises", "empty"} =>
               Response.risk_level = FallbackRiskLevel(last.score))

C9_ReasoningDiscloses ==
    Answered =>
        LET r == Response.reasoning IN
        /\ (r[4] = "Using fallback heuristics (MeTTa unavailable). ")
              <=> ~metta_analyzer.initialized
        /\ (r[4] = "Evaluated against DeFi safety rules knowledge base. ")
              <=> metta_analyzer.initialized
        /\ r[2][1] * 100 + r[2][3] * 10 + r[2][4] = last.score
        /\ r[2][2] = "."
        /\ r[6] = Response.risk_level
        /\ (r[8] = "Transaction approved.") <=> Response.is_safe
        /\ (r[8] = "Transaction flagged - manual review recommended.")
              <=> ~Response.is_safe

\* C9 witness: the engine object exists but the rule file was missing, and
\* the response names the fallback.
C9_Witness ==
    /\ Answered
    /\ load.event = "file_missing"
    /\ Response.reasoning[4] = "Using fallback heuristics (MeTTa unavailable). "
    /\ ~Response.is_safe

\* The response carries the warning of the amount check.
HasAmountWarning ==
    \E i \in 1..Len(Response.warnings) :
        Response.warnings[i][1] = "Transaction amount "

\* C10: a request with a non-positive amount is answered with the amount
\* warning and a score of at least 0.25, whichever optional fields it has.
C10_NonPositiveAmountScored ==
    (Answered /\ last.request.amount <= 0) =>
        (HasAmountWarning /\ last.score >= 25)

\* The token a symbol names: symbols are compared without regard to the
\* case of their letters.
Names(token, symbol) == upper(token) = symbol

\* The amount limits as the specification gives them, in hundredths.
TableLimit(token) ==
    CASE Names(token, SUI) -> 10000
      [] Names(token, USDC) \/ Names(token, USDT) -> 1000000
      [] OTHER -> 100000

ProbedResponse == probe.sent[1]

\* C11: on the fallback, gas is safe iff 0 < gas < 0.5, slippage iff
\* 0 <= slippage <= 0.05, an amount iff 0.01 < amount < limit of its token
\* (SUI 100, USDC and USDT 10000, others 1000), and a token is trusted iff it
\* is SUI, USDC or USDT; the swap (gas 0.05, slippage 0.01, amount 10, SUI to
\* USDC) scores 0.0 / low / safe, and with gas 1.0, slippage 0.10 and
\* destination SCAMCOIN exactly gas, slippage and destination fire, scoring
\* 0.85 / critical / unsafe.
C11_FallbackPredicatesExact ==
    /\ (probe.kind = "gas" =>
           (probe.safe <=> (0 < probe.gas /\ probe.gas < 50)))
    /\ (probe.kind = "slippage" =>
           (probe.safe <=> (0 <= probe.slippage /\ probe.slippage <= 5)))
    /\ (probe.kind = "amount" =>
           (probe.safe <=>
               (1 < probe.amount /\ probe.amount < TableLimit(probe.token))))
    /\ (probe.kind = "token" =>
           (probe.trusted <=>
               (\/ Names(probe.token, SUI) \/ Names(probe.token, USDC)
                \/ Names(probe.token, USDT))))
    /\ ((probe.kind = "request" /\ probe.request = SafeSwap) =>
           /\ ~probe.raised /\ Len(probe.sent) = 1
           /\ probe.fired = {} /\ probe.score = 0
           /\ ProbedResponse.risk_level = "low" /\ ProbedResponse.is_safe)
    /\ ((probe.kind = "request" /\ probe.request = RiskySwap) =>
           /\ ~probe.raised /\ Len(probe.sent) = 1
           /\ probe.fired = {"gas", "slippage", "destination"}
           /\ probe.score = 85
           /\ ProbedResponse.risk_level = "critical" /\ ~ProbedResponse.is_safe)

\* C11 witness: the second swap was evaluated on the fallback and flagged
\* with the three penalties.
C11_Witness ==
    /\ probe.kind = "request" /\ probe.request = RiskySwap
    /\ probe.score = 85 /\ Cardinality(probe.fired) = 3
    /\ ~ProbedResponse.is_safe

\* The characters after the first two
Remainder(address) == SubSeq(address, 3, Len(address))

Has0x(address) ==
    Len(address) >= 2 /\ address[1] = "0" /\ address[2] = "x"

IsHexDigit(c) ==
    \/ c \in {"0","1","2","3","4","5","6","7","8","9"}
    \/ c \in {"a","b","c","d","e","f"}
    \/ c \in {"A","B","C","D","E","F"}

AllHex(s) == \A i \in 1..Len(s) : IsHexDigit(s[i])

PrefixMessage == Some(<<"Address must start with 0x">>)

LengthMessage(n) == Some(<<"Address must be 64 hex characters (got ", n, ")">>)

CharactersMessage == Some(<<"Address contains invalid characters">>)

\* Acceptance and the messages for the addresses that have the prefix.
AddressWith0xRule(address, result) ==
    /\ result[1] <=>
          (Has0x(address) /\ Len(Remainder(address)) = 64
           /\ AllHex(Remainder(address)))
    /\ (result[1] => result[2] = None)
    /\ ((Has0x(address) /\ Len(Remainder(address)) # 64) =>
           result = <<FALSE, LengthMessage(Len(address) - 2)>>)
    /\ ((Has0x(address) /\ Len(Remainder(address)) = 64
         /\ ~AllHex(Remainder(address))) =>
           result = <<FALSE, CharactersMessage>>)

\* C12 as stated: validate_sui_address accepts exactly 0x followed by 64 hex
\* digits of either case; any string without the 0x prefix is rejected with
\* the prefix message, a wrong length with the length message reporting the
\* actual length, and a non-hex character with the invalid-characters
\* message, in this order.
C12_AddressValidation ==
    probe.kind = "address" =>
        /\ AddressWith0xRule(probe.address, probe.result)
        /\ (~Has0x(probe.address) => probe.result = <<FALSE, PrefixMessage>>)

\* C12 amended: as C12, except that the empty string, which has no prefix,
\* is rejected with the message "Address is empty"; every non-empty string
\* without the prefix is rejected with the prefix message.
C12_AddressValidationAmended ==
    probe.kind = "address" =>
        /\ AddressWith0xRule(probe.address, probe.result)
        /\ ((~Has0x(probe.address) /\ probe.address # <<>>) =>
               probe.result = <<FALSE, PrefixMessage>>)
        /\ (probe.address = <<>> =>
               probe.result = <<FALSE, Some(<<"Address is empty">>)>>)

\* C12 witness: an address of 64 hex digits of both cases was accepted.
C12_Witness ==
    /\ probe.kind = "address"
    /\ probe.address = MixedCaseAddress
    /\ probe.result[1]

\* C13: the confidence of a response is 1.0 - 0.2 * score for its capped
\* score (in thousandths: 1000 - 2 * score in hundredths), so it lies within
\* [0.8, 1.0], and of two responses the one with the higher score never has
\* the higher confidence.
C13_ConfidenceBounded ==
    pair.evaluated =>
        /\ pair.a.confidence = 1000 - 2 * pair.a.score
        /\ pair.b.confidence = 1000 - 2 * pair.b.score
        /\ 800 <= pair.a.confidence /\ pair.a.confidence <= 1000
        /\ 800 <= pair.b.confidence /\ pair.b.confidence <= 1000
        /\ (pair.a.score <= pair.b.score =>
               pair.a.confidence >= pair.b.confidence)
        /\ (pair.b.score <= pair.a.score =>
               pair.b.confidence >= pair.a.confidence)

\* C13 witness: one evaluation reached the cap and has confidence 0.8, the
\* other scored less and has a higher confidence.
C13_Witness ==
    /\ pair.evaluated
    /\ pair.b.score = 100 /\ pair.b.confidence = 800
    /\ pair.a.score > 0 /\ pair.a.score < 100
    /\ pair.a.confidence > 800

\* The elements of a list, as a set
Elements(list) == {list[i] : i \in 1..Len(list)}

\* No element comes twice in the list.
NoRepeats(list) == Cardinality(Elements(list)) = Len(list)

\* C14: add_fact is idempotent: inserting a triple that is already present
\* leaves the fact set and its size unchanged, and inserting a triple a
\* second time changes nothing after the first insertion.
C14_AddFactIdempotent ==
    kg_last.op = "add_fact" =>
        LET t == kg_last.fact
            again == add_fact(facts, t[1], t[2], t[3])
        IN  /\ t \in facts
            /\ (t \in kg_last.before =>
                   /\ facts = kg_last.before
                   /\ Cardinality(facts) = Cardinality(kg_last.before))
            /\ again = facts
            /\ Cardinality(again) = Cardinality(facts)

\* C14 witness: a triple already in a store of several triples was inserted
\* again.
C14_Witness ==
    /\ kg_last.op = "add_fact"
    /\ kg_last.fact \in kg_last.before
    /\ Cardinality(kg_last.before) >= 2

\* The last call was query(subject, predicate, obj) with these arguments.
Queried(subject, predicate, obj) ==
    /\ kg_last.op = "query"
    /\ kg_last.subject = subject
    /\ kg_last.predicate = predicate
    /\ kg_last.obj = obj

\* C15: after any sequence of add_fact, add_facts_batch and from_json,
\* query(None, None, None) returns the full fact set: every stored triple
\* once and nothing else.
C15_WildcardQueryIsStore ==
    Queried(None, None, None) =>
        /\ Elements(kg_last.result) = facts
        /\ Len(kg_last.result) = Cardinality(facts)

\* C15 witness: the store holds several triples, one of them with an empty
\* subject, and query() returned them.
C15_Witness ==
    /\ Queried(None, None, None)
    /\ Len(kg_last.result) >= 2
    /\ \E t \in facts : t[1] = ""

\* C16: after any sequence of add_fact, add_facts_batch and from_json, no
\* stored triple has an empty subject or an empty predicate.
C16_NoEmptySubjectOrPredicate ==
    \A t \in facts : t[1] # "" /\ t[2] # ""

\* C17: the store only grows: a triple in the store stays in the store
\* across every operation.
C17_StoreOnlyGrows == [][facts \subseteq facts']_vars

\* The triples a document lists, as the list of its "facts" key
Listed(data) == IF data.facts = None THEN <<>> ELSE Val(data.facts).array

\* C18: a store loaded from the document to_json returns holds the same
\* triples and the same rules, whatever the order of the document; a
\* document listing a triple more than once loads it once.
C18_SnapshotRoundTrip ==
    /\ (kg_last.op = "to_json" =>
           /\ from_json(kg_last.result).facts = facts
           /\ from_json(kg_last.result).rules = rules)
    /\ (kg_last.op = "from_json" =>
           /\ facts = {Listed(kg_last.data)[i].array :
                          i \in 1..Len(Listed(kg_last.data))}
           /\ (~NoRepeats(Listed(kg_last.data)) =>
                  Cardinality(facts) < Len(Listed(kg_last.data))))

\* C18 witness: a store of several triples and a rule was exported.
C18_Witness ==
    /\ kg_last.op = "to_json"
    /\ Cardinality(facts) >= 2
    /\ rules # <<>>
    /\ Len(Val(kg_last.result.facts).array) = Cardinality(facts)

\* The stored triples equal to the given value at every position given.
Matching(subject, predicate, obj) ==
    {t \in facts :
        /\ \A s \in subject : t[1] = s
        /\ \A p \in predicate : t[2] = p
        /\ \A o \in obj : t[3] = o}

\* C19: query(s, p, o) returns the stored triples equal to the given value
\* at every position that is not None, each once; when nothing matches, as
\* for a subject or predicate no triple has, it returns the empty list.
C19_QueryMatchesPattern ==
    kg_last.op = "query" =>
        /\ Elements(kg_last.result)
              = Matching(kg_last.subject, kg_last.predicate, kg_last.obj)
        /\ NoRepeats(kg_last.result)
        /\ (Matching(kg_last.subject, kg_last.predicate, kg_last.obj) = {}
               => kg_last.result = <<>>)
        /\ ((kg_last.subject = Some("Aftermath")
             \/ kg_last.predicate = Some("is_type")) => kg_last.result = <<>>)

\* C19 witness: a query giving subject and object returned some of the
\* triples of that subject and not all.
C19_Witness ==
    /\ kg_last.op = "query"
    /\ kg_last.subject # None /\ kg_last.predicate = None /\ kg_last.obj # None
    /\ Len(kg_last.result) >= 1
    /\ Len(kg_last.result)
          < Cardinality(Matching(kg_last.subject, None, None))

\* The triples of a subject
About(subject) == {t \in facts : t[1] = subject}

\* A dict of lists flattened to (subject, predicate, object) triples
Flattened(subject, relationships) ==
    UNION {{<<subject, p, relationships[p][i]>> : i \in DOMAIN relationships[p]} :
              p \in DOMAIN relationships}

\* C20: query(s, None, None) is the set of stored triples with subject s,
\* and get_relationships(s) flattened is the same set: its keys are the
\* predicates of s, each object of a predicate is once in its list, and
\* there is no other key or object.
C20_RelationshipsMatchQuery ==
    /\ \A s \in QuerySubjects :
          Queried(Some(s), None, None) =>
              /\ Elements(kg_last.result) = About(s)
              /\ NoRepeats(kg_last.result)
    /\ (kg_last.op = "get_relationships" =>
           LET rel == kg_last.result
               s == kg_last.subject
           IN  /\ Flattened(s, rel) = About(s)
               /\ DOMAIN rel = {t[2] : t \in About(s)}
               /\ \A p \in DOMAIN rel :
                     /\ Elements(rel[p]) = {t[3] : t \in {u \in About(s) : u[2] = p}}
                     /\ NoRepeats(rel[p]))

\* C20 witness: get_relationships returned two keys for a subject, one of
\* them with two objects.
C20_Witness ==
    /\ kg_last.op = "get_relationships"
    /\ Cardinality(DOMAIN kg_last.result) = 2
    /\ \E p \in DOMAIN kg_last.result : Len(kg_last.result[p]) = 2

\* The response carries a warning whose text starts with head.
HasWarning(head) ==
    \E i \in 1..Len(Response.warnings) : Response.warnings[i][1] = head

HasRecommendation(text) ==
    \E i \in 1..Len(Response.recommendations) : Response.recommendations[i] = text

\* C24: a request whose estimated_gas is present, 0 included, and fails the
\* gas predicate (safe iff 0 < gas < 0.5) gets +0.30, the gas warning and
\* its recommendation; with estimated_gas absent the check adds nothing.
C24_GasCheck ==
    Answered =>
        LET gas == last.request.estimated_gas IN
        /\ ((gas # None /\ ~(0 < Val(gas) /\ Val(gas) < 50)) =>
               /\ "gas" \in last.fired
               /\ last.score >= 30
               /\ HasWarning("Gas amount ")
               /\ HasRecommendation(
                      "Reduce transaction complexity or check gas estimation"))
        /\ (gas = None =>
               /\ "gas" \notin last.fired
               /\ ~HasWarning("Gas amount "))

\* C25: a request whose recipient_address is present, the empty string
\* included, and fails the address validation gets +0.50 and the invalid
\* recipient warning with the validator's message; a valid or an absent
\* recipient adds nothing.
C25_RecipientCheck ==
    Answered =>
        LET recipient == last.request.recipient_address IN
        /\ ((recipient # None /\ ~validate_sui_address(Val(recipient))[1]) =>
               /\ "recipient" \in last.fired
               /\ last.score >= 50
               /\ \E i \in 1..Len(Response.warnings) :
                     Response.warnings[i]
                        = <<"Invalid recipient address: ",
                            validate_sui_address(Val(recipient))[2]>>)
        /\ ((recipient = None \/ validate_sui_address(Val(recipient))[1]) =>
               /\ "recipient" \notin last.fired
               /\ ~HasWarning("Invalid recipient address: "))

\* The checks in the order of the specification's table
CheckOrder ==
    <<"gas", "slippage", "amount", "source", "destination", "recipient">>

\* The checks fired in the last evaluation, in the order of the table
FiredInOrder ==
    LET Fired(c) == c \in last.fired IN SelectSeq(CheckOrder, Fired)

\* How the warning of each check starts
WarningHead ==
    [gas |-> "Gas amount ", slippage |-> "Slippage tolerance ",
     amount |-> "Transaction amount ", source |-> "Token ",
     destination |-> "Token ", recipient |-> "Invalid recipient address: "]

\* The recommendation of each check
TableRecommendation ==
    [gas |-> "Reduce transaction complexity or check gas estimation",
     slippage |-> "Reduce slippage or wait for better market conditions",
     amount |-> "Consider splitting into smaller transactions",
     source |-> "Verify token contract address before proceeding",
     destination |-> "Verify token contract address before proceeding",
     recipient |-> "Double-check the recipient address"]

\* C26: the recommendations of a response are never empty: they are the one
\* recommendation "Transaction parameters look safe" iff there is no
\* warning; otherwise there is one recommendation for each warning, and both
\* lists follow the order gas, slippage, amount, source token, destination
\* token, recipient.
C26_RecommendationsMatchWarnings ==
    Answered =>
        LET ws == Response.warnings
            rs == Response.recommendations
            order == FiredInOrder
        IN  /\ Len(rs) >= 1
            /\ (rs = <<"Transaction parameters look safe">>) <=> (ws = <<>>)
            /\ (ws # <<>> =>
                   /\ Len(rs) = Len(ws)
                   /\ Len(ws) = Len(order)
                   /\ \A i \in 1..Len(ws) :
                         /\ ws[i][1] = WarningHead[order[i]]
                         /\ rs[i] = TableRecommendation[order[i]]
                         /\ (order[i] = "source" =>
                                ws[i][2] = last.request.from_token)
                         /\ (order[i] = "destination" =>
                                ws[i][2] = last.request.to_token))

\* C26 witness: all six checks fired and the response has six warnings.
C26_Witness ==
    /\ Answered
    /\ last.fired = AllChecks
    /\ Len(Response.warnings) = 6
    /\ Len(Response.recommendations) = 6

\* The venues with a supports_pair fact for the key in the store F
Supporting(F, pair_key) ==
    {t[1] : t \in {u \in F : u[2] = Str("supports_pair") /\ u[3] = pair_key}}

\* The values the store F holds for a property of a subject
ValuesOf(F, subject, predicate) ==
    {t[3] : t \in {u \in F : u[1] = subject /\ u[2] = predicate}}

\* 10 for high, 5 for medium, 0 otherwise
LiquidityPoints(values) ==
    IF values = {} THEN {0}
    ELSE {IF v = Str("high") THEN 10 ELSE IF v = Str("medium") THEN 5 ELSE 0 :
             v \in values}

\* 10 for low, 5 for medium, 0 otherwise
RiskPoints(values) ==
    IF values = {} THEN {0}
    ELSE {IF v = Str("low") THEN 10 ELSE IF v = Str("medium") THEN 5 ELSE 0 :
             v \in values}

\* The scores a venue can have for the pair: one per choice of a value of
\* liquidity_<pair> and of risk_level (a single score when the store holds
\* at most one value of each).
VenueScores(F, dex, pair_key) ==
    {l + r : l \in LiquidityPoints(ValuesOf(F, dex, LiquidityKey(pair_key))),
             r \in RiskPoints(ValuesOf(F, dex, Str("risk_level")))}

\* C21: infer_best_dex returns none exactly when no venue has a
\* supports_pair fact for the key coin_in/coin_out; otherwise it returns a
\* venue that supports the pair and whose score is the highest of the
\* supporting venues' scores.  Over the seed, Cetus scores 20 and Turbos 10
\* for SUI/USDC and Cetus is returned, and SUI/NONEXISTENT gives none.
C21_BestDexIsMaximal ==
    kg_last.op = "best_dex" =>
        LET pair_key == PairKey(kg_last.coin_in, kg_last.coin_out)
            venues == Supporting(facts, pair_key)
            returned == kg_last.returned
        IN  /\ returned = None <=> venues = {}
            /\ returned # None =>
                  /\ Val(returned) \in venues
                  /\ \E own \in VenueScores(facts, Val(returned), pair_key) :
                     \A dex \in venues \ {Val(returned)} :
                     \E other \in VenueScores(facts, dex, pair_key) : other <= own
            /\ (facts = SeedFacts /\ pair_key = PairKey(Str("SUI"), Str("USDC"))) =>
                  /\ VenueScores(facts, Str("Cetus"), pair_key) = {20}
                  /\ VenueScores(facts, Str("Turbos"), pair_key) = {10}
                  /\ returned = Some(Str("Cetus"))
            /\ (facts = SeedFacts
                /\ pair_key = PairKey(Str("SUI"), Str("NONEXISTENT"))) =>
                  returned = None

\* Cetus was returned for SUI/USDC from a store in which Turbos also has
\* the risk level low.
C21_Witness ==
    /\ kg_last.op = "best_dex"
    /\ kg_last.coin_in = Str("SUI") /\ kg_last.coin_out = Str("USDC")
    /\ Fact("Turbos", "risk_level", "low") \in facts
    /\ kg_last.returned = Some(Str("Cetus"))
\* The store F has no coin_type fact or no decimals fact for the token
LacksCoinFacts(F, token) ==
    \/ ValuesOf(F, token, Str("coin_type")) = {}
    \/ ValuesOf(F, token, Str("decimals")) = {}

\* C22: building swap parameters returns none exactly when either token
\* lacks a coin_type or a decimals fact; otherwise it returns a bundle with
\* both tokens' coin type and decimals and a venue that is the result of
\* infer_best_dex for the pair, or "Cetus" when that is none, and never
\* empty.
C22_SwapParamsTotal ==
    kg_last.op = "swap_params" =>
        LET coin_in == kg_upper(kg_last.coin_in)
            coin_out == kg_upper(kg_last.coin_out)
            outcome == kg_last.outcome
            best_dex == infer_best_dex(kg_last.view, coin_in, coin_out)
        IN  /\ ~outcome.raised
            /\ outcome.value = None <=>
                  LacksCoinFacts(facts, coin_in) \/ LacksCoinFacts(facts, coin_out)
            /\ outcome.value # None =>
                  LET bundle == Val(outcome.value)
                  IN  /\ bundle.tokenFrom.coinType
                            \in ValuesOf(facts, coin_in, Str("coin_type"))
                      /\ bundle.tokenTo.coinType
                            \in ValuesOf(facts, coin_out, Str("coin_type"))
                      /\ \E d \in ValuesOf(facts, coin_in, Str("decimals")) :
                            ParseInt(d) = Some(bundle.tokenFrom.decimals)
                      /\ \E d \in ValuesOf(facts, coin_out, Str("decimals")) :
                            ParseInt(d) = Some(bundle.tokenTo.decimals)
                      /\ bundle.dex = (IF best_dex # None THEN Val(best_dex)
                                       ELSE Str("Cetus"))
                      /\ bundle.dex # <<>>
C27_VenueReproducible ==
    kg_last.op = "two_stores" => kg_last.first = kg_last.second
\* C28: the read operations (query, get_property, find_best_by_property,
\* traverse_path, get_relationships, infer_best_dex, get_gas_estimate,
\* explain_reasoning, to_json) leave the fact set, its iteration order and
\* the rules as they were, so that between two insertions every read works
\* on the same store, and a read repeated returns the answer it returned
\* before.
C28_ReadsLeaveStore ==
    [][(kg_last' # NoCall /\ kg_last'.read) =>
          /\ facts' = facts
          /\ rules' = rules
          /\ layout' = layout
          /\ (kg_last # NoCall /\ kg_last.read
              /\ kg_last.op = kg_last'.op /\ kg_last.args = kg_last'.args) =>
                kg_last'.result = kg_last.result]_vars

\* A read has answered from a store of three facts with rules, right after
\* another read: infer_best_dex returned Cetus.
C28_Witness ==
    /\ kg_last.op = "infer_best_dex"
    /\ kg_last.result = Some(Str("Cetus"))
    /\ Cardinality(facts) = 3
    /\ rules = <<Rule>>
\* The positions of the trace at which a SwapRequest goes to the executor
SwapSends(trace) ==
    {i \in 1..Len(trace) :
        /\ trace[i].kind = "send"
        /\ trace[i].peer = "EXECUTOR"
        /\ trace[i].type = "SwapRequest"}

\* The positions of the trace at which a RiskCheckResponse with
\* is_safe = true comes from the risk agent
Approvals(trace) ==
    {i \in 1..Len(trace) :
        /\ trace[i].kind = "receive"
        /\ trace[i].peer = "RISK"
        /\ trace[i].answer.kind = "message"
        /\ trace[i].answer.type = "RiskCheckResponse"
        /\ trace[i].answer.is_safe}

\* C29: while the coordinator handles a swap, the SwapRequest goes to the
\* transaction executor only after a RiskCheckResponse with is_safe = true
\* has been received for that swap; when the consultation of the risk agent
\* finds it unconfigured, gets no answer, gets a message of another type or
\* gets is_safe = false, the handler returns the cancellation and no
\* SwapRequest is sent for that request.
C29_RiskGate ==
    coordinator # NoSwap =>
        /\ \A i \in SwapSends(coordinator.trace) :
              \E j \in Approvals(coordinator.trace) : j < i
        /\ coordinator.risk \in {"unconfigured", "no_answer", "exception",
                                 "other_type", "unsafe"} =>
              /\ coordinator.pc = "done"
              /\ coordinator.reply = "cancelled"
              /\ SwapSends(coordinator.trace) = {}

\* The SwapRequest has gone to the executor, after the risk agent approved.
C29_Witness ==
    /\ coordinator # NoSwap
    /\ coordinator.pc = "await_executor"
    /\ coordinator.risk = "safe"
    /\ SwapSends(coordinator.trace) # {}
\* The request fails the handler's validation: a non-positive amount, or a
\* transfer whose recipient address is invalid
FailsValidation(handler, msg) ==
    \/ msg.amount <= 0
    \/ handler = "handle_transfer" /\ ~validate_sui_address(msg.recipient_address)[1]

\* C30: every SwapRequest, TransferRequest or StakeRequest the transaction
\* executor handles is answered with exactly one TransactionResponse to its
\* sender, of status success, failure or error, whatever the request and
\* whatever the backend does; when the amount is not positive or a
\* transfer's recipient address is invalid the answer is an error and
\* nothing is posted to the backend.
C30_OneResponse ==
    executor # NoRequest =>
        /\ Len(executor.sent) = 1
        /\ executor.sent[1].type = "TransactionResponse"
        /\ executor.sent[1].status \in {"success", "failure", "error"}
        /\ FailsValidation(executor.handled, executor.msg) =>
              /\ executor.sent[1].status = "error"
              /\ executor.posted = <<>>

====
